---- MODULE Spec2Model ----
(***************************************************************************)
(* The per-tick spatial interaction engine of llm_society:                 *)
(* the six agent kernels of flame_gpu/agent_kernels.py (movement, social   *)
(* broadcast/aggregate, cultural broadcast/aggregate, core-state update)   *)
(* and the tick scheduler that runs them phase by phase.                   *)
(*                                                                         *)
(* Floats are fixed-point integers: the float f is the integer f * Unit,   *)
(* and every product and quotient is rounded to the nearest representable  *)
(* value, as a float operation is.                                         *)
(***************************************************************************)
EXTENDS Integers, Sequences, FiniteSets, TLC

\* ------------------------------------------------------------------ bounds
NAgents == 2
MaxTicks == 2
\* the ticks of a run that lasts until every energy is spent
DecayTicks == 201

\* ------------------------------------------------------- float arithmetic
Unit == 1000

Abs(a) == IF a >= 0 THEN a ELSE -a

\* a / b rounded to the nearest integer (b > 0), symmetric around 0
RDiv(a, b) == IF a >= 0 THEN (2 * a + b) \div (2 * b)
                         ELSE -((2 * (-a) + b) \div (2 * b))

\* float product and float quotient
FMul(a, b) == RDiv(a * b, Unit)
FDiv(a, b) == RDiv(a * Unit, b)

Min(a, b) == IF a <= b THEN a ELSE b
Max(a, b) == IF a >= b THEN a ELSE b

RECURSIVE SqrtSearch(_, _, _)
SqrtSearch(n, lo, hi) ==
    IF lo >= hi THEN lo
    ELSE LET mid == (lo + hi + 1) \div 2
         IN IF mid * mid <= n THEN SqrtSearch(n, mid, hi)
                              ELSE SqrtSearch(n, lo, mid - 1)

\* math.sqrt of a product of two floats (n is in Unit * Unit): a float
Sqrt(n) == SqrtSearch(n, 0, Min(n, 46340))

\* ------------------------------------------------------------------ state
VARIABLES
    env,                \* the environment properties, read-only
    tick,               \* the tick being run, 1 .. MaxTicks
    phase,              \* index into PhaseOrder of the phase being run
    done,               \* the agents whose task of this phase has completed
    agents,             \* agent id -> the agent's variables
    rng,                \* agent id -> the state of the agent's random stream
    social_messages,    \* the social message list of this tick
    cultural_messages,  \* the cultural message list of this tick
    snap,               \* history: agents and rng as the current phase started,
                        \* the agents as the current tick started, and the
                        \* agents as each earlier phase of the tick completed
    runs                \* history: agent -> phase index -> tasks run in this tick

vars == <<env, tick, phase, done, agents, rng, social_messages, cultural_messages,
          snap, runs>>

\* ------------------------------------------------- environment properties
world_width == env.world_width
world_height == env.world_height
interaction_radius == env.interaction_radius
cultural_influence_radius == env.cultural_influence_radius
MAX_INTERACTIONS_PER_STEP == env.MAX_INTERACTIONS_PER_STEP
INFLUENCE_STRENGTH_FACTOR == env.INFLUENCE_STRENGTH_FACTOR
CULTURAL_SHIFT_FACTOR == env.CULTURAL_SHIFT_FACTOR
GROUP_CHANGE_THRESHOLD == env.GROUP_CHANGE_THRESHOLD
STEPS_PER_YEAR == env.STEPS_PER_YEAR

\* the environments the configuration provider supplies
Environments ==
    { [world_width |-> 10 * Unit, world_height |-> 8 * Unit,
       interaction_radius |-> 5 * Unit, cultural_influence_radius |-> 6 * Unit,
       MAX_INTERACTIONS_PER_STEP |-> 2, INFLUENCE_STRENGTH_FACTOR |-> Unit,
       CULTURAL_SHIFT_FACTOR |-> Unit \div 10,
       GROUP_CHANGE_THRESHOLD |-> (4 * Unit) \div 10,
       STEPS_PER_YEAR |-> 100 * Unit],
      \* a tight cap and a low switch threshold
      [world_width |-> 10 * Unit, world_height |-> 8 * Unit,
       interaction_radius |-> 5 * Unit, cultural_influence_radius |-> 6 * Unit,
       MAX_INTERACTIONS_PER_STEP |-> 1, INFLUENCE_STRENGTH_FACTOR |-> Unit,
       CULTURAL_SHIFT_FACTOR |-> Unit \div 10,
       GROUP_CHANGE_THRESHOLD |-> (3 * Unit) \div 10,
       STEPS_PER_YEAR |-> 100 * Unit],
      \* the degenerate values: zero radii, zero STEPS_PER_YEAR
      [world_width |-> 10 * Unit, world_height |-> 8 * Unit,
       interaction_radius |-> 0, cultural_influence_radius |-> 0,
       MAX_INTERACTIONS_PER_STEP |-> 2, INFLUENCE_STRENGTH_FACTOR |-> Unit,
       CULTURAL_SHIFT_FACTOR |-> Unit \div 10,
       GROUP_CHANGE_THRESHOLD |-> (4 * Unit) \div 10,
       STEPS_PER_YEAR |-> 0],
      \* standard, but with no interaction allowed per step
      [world_width |-> 10 * Unit, world_height |-> 8 * Unit,
       interaction_radius |-> 5 * Unit, cultural_influence_radius |-> 6 * Unit,
       MAX_INTERACTIONS_PER_STEP |-> 0, INFLUENCE_STRENGTH_FACTOR |-> Unit,
       CULTURAL_SHIFT_FACTOR |-> Unit \div 10,
       GROUP_CHANGE_THRESHOLD |-> (4 * Unit) \div 10,
       STEPS_PER_YEAR |-> 100 * Unit] }

NUM_CULTURAL_GROUPS == 5
Groups == 0 .. (NUM_CULTURAL_GROUPS - 1)

\* sum(affinities)
RECURSIVE SumUpTo(_, _)
SumUpTo(f, i) == IF i < 0 THEN 0 ELSE f[i] + SumUpTo(f, i - 1)
Sum(f) == SumUpTo(f, NUM_CULTURAL_GROUPS - 1)

\* --------------------------------------------------------- random streams
\* pyflamegpu.random: every agent owns a stream, a linear congruential
\* generator seeded from the simulation seed; a draw advances the stream
RngModulus == 8
RngNext(s) == (5 * s + 3) % RngModulus

\* the stream after n draws
RECURSIVE RngAdvance(_, _)
RngAdvance(s, n) == IF n = 0 THEN s ELSE RngAdvance(RngNext(s), n - 1)

\* pyflamegpu.random.uniformFloat(lo, hi), the k-th draw from stream state s
uniformFloat(lo, hi, s, k) == lo + ((hi - lo) * RngAdvance(s, k)) \div RngModulus

\* the simulation seeds tried
Seeds == {0, 3, 5}

\* the draws the movement kernel makes for this agent
MoveDraws(ag) == IF ag.energy > Unit \div 10 THEN 2 ELSE 0

\* ---------------------------------------------------------------- movement
max_speed == 5 * Unit
energy_cost_per_move_factor == Unit \div 100

\* a border test that wraps around instead of reflecting
ReflectWraps(new, v, bound) ==
    IF new <= 0 THEN <<new + bound, v>>
    ELSE IF new >= bound THEN <<new - bound, v>>
    ELSE <<new, v>>

\* new coordinate and velocity component after the border test of one axis
Reflect(new, v, bound) ==
    IF new <= 0 THEN <<0, -v>>
    ELSE IF new >= bound THEN <<bound, -v>>
    ELSE <<new, v>>

\* the update of a moving agent whose speed is not limited
MoveUpdateNoSpeedLimit(ag, s) ==
         LET vx1 == ag.velocity_x + uniformFloat(-Unit, Unit, s, 1)
             vy1 == ag.velocity_y + uniformFloat(-Unit, Unit, s, 2)
             rx == Reflect(ag.x + vx1, vx1, world_width)
             ry == Reflect(ag.y + vy1, vy1, world_height)
             movement_energy_cost ==
                 FMul(energy_cost_per_move_factor,
                      IF max_speed > 0
                      THEN FDiv(Sqrt(rx[2] * rx[2] + ry[2] * ry[2]), max_speed)
                      ELSE 0)
         IN [ag EXCEPT !.x = rx[1], !.y = ry[1],
                       !.velocity_x = rx[2], !.velocity_y = ry[2],
                       !.energy = Max(0, ag.energy - movement_energy_cost)]

\* the update of an agent that moves
MoveUpdate(ag, s) ==
         LET vx0 == ag.velocity_x + uniformFloat(-Unit, Unit, s, 1)
             vy0 == ag.velocity_y + uniformFloat(-Unit, Unit, s, 2)
             current_speed == Sqrt(vx0 * vx0 + vy0 * vy0)
             vx1 == IF current_speed > max_speed
                    THEN FMul(FDiv(vx0, current_speed), max_speed) ELSE vx0
             vy1 == IF current_speed > max_speed
                    THEN FMul(FDiv(vy0, current_speed), max_speed) ELSE vy0
             rx == Reflect(ag.x + vx1, vx1, world_width)
             ry == Reflect(ag.y + vy1, vy1, world_height)
             movement_energy_cost ==
                 FMul(energy_cost_per_move_factor,
                      IF max_speed > 0
                      THEN FDiv(Sqrt(rx[2] * rx[2] + ry[2] * ry[2]), max_speed)
                      ELSE 0)
         IN [ag EXCEPT !.x = rx[1], !.y = ry[1],
                       !.velocity_x = rx[2], !.velocity_y = ry[2],
                       !.energy = Max(0, ag.energy - movement_energy_cost)]

\* a movement kernel that lets an agent with energy exactly 0.1 move
MoveAtThreshold(ag, s) == IF ag.energy >= Unit \div 10 THEN MoveUpdate(ag, s) ELSE ag

\* s is the state of the agent's random stream, read only when the agent moves
move_agent_pyfgpu(ag, s) == IF ag.energy > Unit \div 10 THEN MoveUpdate(ag, s) ELSE ag

\* ------------------------------------------------------- core state update
\* a core state update that ages the agent by a year when STEPS_PER_YEAR is 0
CoreStateAgesWithoutYear(ag) ==
    LET e1 == Max(0, ag.energy - (5 * Unit) \div 1000)
        food_consumption_rate == Unit \div 100
        fed == ag.food_resources > food_consumption_rate
        age_increase == IF STEPS_PER_YEAR > 0 THEN FDiv(Unit, STEPS_PER_YEAR) ELSE Unit
    IN [ag EXCEPT !.food_resources = IF fed THEN ag.food_resources - food_consumption_rate
                                            ELSE 0,
                  !.energy = IF fed THEN e1 ELSE Max(0, e1 - Unit \div 100),
                  !.age = ag.age + age_increase]

\* the core-state update of an agent that still eats when its food equals the rate
CoreStateFoodAtThreshold(ag) ==
    LET e1 == Max(0, ag.energy - (5 * Unit) \div 1000)
        food_consumption_rate == Unit \div 100
        fed == ag.food_resources >= food_consumption_rate
        age_increase == IF STEPS_PER_YEAR > 0 THEN FDiv(Unit, STEPS_PER_YEAR) ELSE 0
    IN [ag EXCEPT !.food_resources = IF fed THEN ag.food_resources - food_consumption_rate
                                            ELSE 0,
                  !.energy = IF fed THEN e1 ELSE Max(0, e1 - Unit \div 100),
                  !.age = ag.age + age_increase]

\* a core-state update in which eating pays for the upkeep of the energy
CoreStateFoodRestores(ag) ==
    LET e1 == Max(0, ag.energy - (5 * Unit) \div 1000)
        food_consumption_rate == Unit \div 100
        fed == ag.food_resources > food_consumption_rate
        age_increase == IF STEPS_PER_YEAR > 0 THEN FDiv(Unit, STEPS_PER_YEAR) ELSE 0
    IN [ag EXCEPT !.food_resources = IF fed THEN ag.food_resources - food_consumption_rate
                                            ELSE 0,
                  !.energy = IF fed THEN ag.energy ELSE Max(0, e1 - Unit \div 100),
                  !.age = ag.age + age_increase]

update_agent_core_state_pyfgpu(ag) ==
    LET e1 == Max(0, ag.energy - (5 * Unit) \div 1000)
        food_consumption_rate == Unit \div 100
        fed == ag.food_resources > food_consumption_rate
        age_increase == IF STEPS_PER_YEAR > 0 THEN FDiv(Unit, STEPS_PER_YEAR) ELSE 0
    IN [ag EXCEPT !.food_resources = IF fed THEN ag.food_resources - food_consumption_rate
                                            ELSE 0,
                  !.energy = IF fed THEN e1 ELSE Max(0, e1 - Unit \div 100),
                  !.age = ag.age + age_increase]

\* the social broadcast of an agent that also emits at energy 0.2
SocialSignalAtThreshold(id, ag) ==
    IF ag.energy >= (2 * Unit) \div 10
    THEN <<[sender_id |-> id, sender_x |-> ag.x, sender_y |-> ag.y,
            cultural_group |-> ag.cultural_group,
            interaction_strength |-> Min(Unit, FMul(ag.social_reputation, ag.energy))]>>
    ELSE <<>>

\* ------------------------------------------------------ broadcast kernels
\* the messages an agent emits in the social broadcast: none or one
output_social_signal_pyfgpu(id, ag) ==
    IF ag.energy > (2 * Unit) \div 10
    THEN <<[sender_id |-> id, sender_x |-> ag.x, sender_y |-> ag.y,
            cultural_group |-> ag.cultural_group,
            interaction_strength |-> Min(Unit, FMul(ag.social_reputation, ag.energy))]>>
    ELSE <<>>

\* the cultural broadcast of an agent that caps its strength at 1
CulturalInfluenceCapped(id, ag) ==
    LET influence_strength ==
            Min(Unit, FMul(FMul(ag.social_reputation, ag.happiness),
                           INFLUENCE_STRENGTH_FACTOR))
    IN IF influence_strength > Unit \div 10
       THEN <<[influencer_id |-> id, influencer_x |-> ag.x, influencer_y |-> ag.y,
               cultural_group |-> ag.cultural_group,
               influence_strength |-> influence_strength]>>
       ELSE <<>>

\* the messages an agent emits in the cultural broadcast: none or one
output_cultural_influence_pyfgpu(id, ag) ==
    LET influence_strength ==
            FMul(FMul(ag.social_reputation, ag.happiness), INFLUENCE_STRENGTH_FACTOR)
    IN IF influence_strength > Unit \div 10
       THEN <<[influencer_id |-> id, influencer_x |-> ag.x, influencer_y |-> ag.y,
               cultural_group |-> ag.cultural_group,
               influence_strength |-> influence_strength]>>
       ELSE <<>>

\* ------------------------------------------------------ social aggregator
DistanceSq(ax, ay, bx, by) == (bx - ax) * (bx - ax) + (by - ay) * (by - ay)

\* local variables whose connection counter starts at one
SocialLoopInitOffByOne(ag) ==
    [interactions_processed |-> 0, happiness_change |-> 0, reputation_change |-> 0,
     new_connections_this_step |-> 1, cultural_affinities |-> ag.cultural_affinity,
     examined |-> 0]

\* the loop's local variables before the first message
SocialLoopInit(ag) ==
    [interactions_processed |-> 0, happiness_change |-> 0, reputation_change |-> 0,
     new_connections_this_step |-> 0, cultural_affinities |-> ag.cultural_affinity,
     examined |-> 0]

\* an iteration whose distance factor grows with the distance
SocialLoopBodyFactorInverted(ag, msg, s, acc) ==
    LET distance_sq == DistanceSq(ag.x, ag.y, msg.sender_x, msg.sender_y)
        distance == Sqrt(distance_sq)
        cultural_similarity ==
            IF msg.cultural_group = ag.cultural_group THEN Unit ELSE (3 * Unit) \div 10
        distance_factor ==
            IF interaction_radius > 0 THEN FDiv(distance, interaction_radius)
                                      ELSE Unit
        interaction_effect ==
            FMul(FMul(msg.interaction_strength, cultural_similarity), distance_factor)
        k == acc.interactions_processed + 1
        g == msg.cultural_group
    IN IF distance_sq <= interaction_radius * interaction_radius
          /\ distance <= interaction_radius
       THEN [acc EXCEPT
               !.happiness_change = @ + FMul(interaction_effect, (5 * Unit) \div 100),
               !.reputation_change = @ + FMul(interaction_effect, (2 * Unit) \div 100),
               !.new_connections_this_step =
                   IF uniformFloat(0, Unit, s, k) < FMul(interaction_effect, Unit \div 10)
                   THEN @ + 1 ELSE @,
               !.cultural_affinities =
                   IF g # ag.cultural_group /\ g \in Groups
                   THEN [@ EXCEPT ![g] = @ + FMul(interaction_effect, Unit \div 100)]
                   ELSE @,
               !.interactions_processed = @ + 1,
               !.examined = @ + 1]
       ELSE [acc EXCEPT !.examined = @ + 1]

\* an iteration whose connection test also passes when the draw equals the bound
SocialLoopBodyDrawInclusive(ag, msg, s, acc) ==
    LET distance_sq == DistanceSq(ag.x, ag.y, msg.sender_x, msg.sender_y)
        distance == Sqrt(distance_sq)
        cultural_similarity ==
            IF msg.cultural_group = ag.cultural_group THEN Unit ELSE (3 * Unit) \div 10
        distance_factor ==
            IF interaction_radius > 0 THEN Unit - FDiv(distance, interaction_radius)
                                      ELSE Unit
        interaction_effect ==
            FMul(FMul(msg.interaction_strength, cultural_similarity), distance_factor)
        k == acc.interactions_processed + 1
        g == msg.cultural_group
    IN IF distance_sq <= interaction_radius * interaction_radius
          /\ distance <= interaction_radius
       THEN [acc EXCEPT
               !.happiness_change = @ + FMul(interaction_effect, (5 * Unit) \div 100),
               !.reputation_change = @ + FMul(interaction_effect, (2 * Unit) \div 100),
               !.new_connections_this_step =
                   IF uniformFloat(0, Unit, s, k) <= FMul(interaction_effect, Unit \div 10)
                   THEN @ + 1 ELSE @,
               !.cultural_affinities =
                   IF g # ag.cultural_group /\ g \in Groups
                   THEN [@ EXCEPT ![g] = @ + FMul(interaction_effect, Unit \div 100)]
                   ELSE @,
               !.interactions_processed = @ + 1,
               !.examined = @ + 1]
       ELSE [acc EXCEPT !.examined = @ + 1]

\* one iteration of "for msg in message_in" past the cap test; s is the state
\* of the agent's random stream as the kernel starts
SocialLoopBody(ag, msg, s, acc) ==
    LET distance_sq == DistanceSq(ag.x, ag.y, msg.sender_x, msg.sender_y)
        distance == Sqrt(distance_sq)
        cultural_similarity ==
            IF msg.cultural_group = ag.cultural_group THEN Unit ELSE (3 * Unit) \div 10
        distance_factor ==
            IF interaction_radius > 0 THEN Unit - FDiv(distance, interaction_radius)
                                      ELSE Unit
        interaction_effect ==
            FMul(FMul(msg.interaction_strength, cultural_similarity), distance_factor)
        k == acc.interactions_processed + 1
        g == msg.cultural_group
    IN IF distance_sq <= interaction_radius * interaction_radius
          /\ distance <= interaction_radius
       THEN [acc EXCEPT
               !.happiness_change = @ + FMul(interaction_effect, (5 * Unit) \div 100),
               !.reputation_change = @ + FMul(interaction_effect, (2 * Unit) \div 100),
               !.new_connections_this_step =
                   IF uniformFloat(0, Unit, s, k) < FMul(interaction_effect, Unit \div 10)
                   THEN @ + 1 ELSE @,
               !.cultural_affinities =
                   IF g # ag.cultural_group /\ g \in Groups
                   THEN [@ EXCEPT ![g] = @ + FMul(interaction_effect, Unit \div 100)]
                   ELSE @,
               !.interactions_processed = @ + 1,
               !.examined = @ + 1]
       ELSE [acc EXCEPT !.examined = @ + 1]

\* a loop without the cap test
RECURSIVE SocialLoopNoCap(_, _, _, _, _)
SocialLoopNoCap(ag, message_in, s, i, acc) ==
    IF i > Len(message_in) THEN acc
    ELSE SocialLoopNoCap(ag, message_in, s, i + 1,
                         SocialLoopBody(ag, message_in[i], s, acc))

\* a loop whose cap counts every message it has examined
RECURSIVE SocialLoopCountsExamined(_, _, _, _, _)
SocialLoopCountsExamined(ag, message_in, s, i, acc) ==
    IF i > Len(message_in) THEN acc
    ELSE IF acc.examined >= MAX_INTERACTIONS_PER_STEP THEN acc
    ELSE SocialLoopCountsExamined(ag, message_in, s, i + 1,
                                  SocialLoopBody(ag, message_in[i], s, acc))

RECURSIVE SocialLoop(_, _, _, _, _)
SocialLoop(ag, message_in, s, i, acc) ==
    IF i > Len(message_in) THEN acc
    ELSE IF acc.interactions_processed >= MAX_INTERACTIONS_PER_STEP THEN acc
    ELSE SocialLoop(ag, message_in, s, i + 1,
                    SocialLoopBody(ag, message_in[i], s, acc))

\* the writes after the loop without the clamp to [0, 1]
SocialWriteBackUnclamped(ag, acc) ==
    LET total_affinity == Sum(acc.cultural_affinities)
    IN [ag EXCEPT
          !.happiness = ag.happiness + acc.happiness_change,
          !.social_reputation = ag.social_reputation + acc.reputation_change,
          !.num_connections = ag.num_connections + acc.new_connections_this_step,
          !.cultural_affinity =
              IF total_affinity > 0
              THEN [g \in Groups |-> FDiv(acc.cultural_affinities[g], total_affinity)]
              ELSE @]

\* writes that also move the agent to a group of greatest affinity
SocialWriteBackAdoptsGroup(ag, acc) ==
    LET total_affinity == Sum(acc.cultural_affinities)
        affinities ==
            IF total_affinity > 0
            THEN [g \in Groups |-> FDiv(acc.cultural_affinities[g], total_affinity)]
            ELSE ag.cultural_affinity
    IN [ag EXCEPT
          !.happiness = Max(0, Min(Unit, ag.happiness + acc.happiness_change)),
          !.social_reputation =
              Max(0, Min(Unit, ag.social_reputation + acc.reputation_change)),
          !.num_connections = ag.num_connections + acc.new_connections_this_step,
          !.cultural_affinity = affinities,
          !.cultural_group =
              CHOOSE g \in Groups : \A h \in Groups : affinities[h] <= affinities[g]]

\* the writes after the loop
SocialWriteBack(ag, acc) ==
    LET total_affinity == Sum(acc.cultural_affinities)
    IN [ag EXCEPT
          !.happiness = Max(0, Min(Unit, ag.happiness + acc.happiness_change)),
          !.social_reputation =
              Max(0, Min(Unit, ag.social_reputation + acc.reputation_change)),
          !.num_connections = ag.num_connections + acc.new_connections_this_step,
          !.cultural_affinity =
              IF total_affinity > 0
              THEN [g \in Groups |-> FDiv(acc.cultural_affinities[g], total_affinity)]
              ELSE @]

process_social_interactions_pyfgpu(ag, message_in, s) ==
    SocialWriteBack(ag, SocialLoop(ag, message_in, s, 1, SocialLoopInit(ag)))

\* the number of uniformFloat(0,1) draws the aggregator makes for this agent
SocialDraws(ag, message_in) ==
    SocialLoop(ag, message_in, 0, 1, SocialLoopInit(ag)).interactions_processed

\* ---------------------------------------------------- cultural aggregator
CulturalLoopInit ==
    [influence_received_per_group |-> [g \in Groups |-> 0],
     total_weighted_influence_strength |-> 0]

CulturalLoopBody(ag, msg, acc) ==
    LET distance_sq == DistanceSq(ag.x, ag.y, msg.influencer_x, msg.influencer_y)
        distance == Sqrt(distance_sq)
        distance_factor ==
            IF cultural_influence_radius > 0
            THEN Unit - FDiv(distance, cultural_influence_radius)
            ELSE Unit
        effective_influence == FMul(msg.influence_strength, distance_factor)
        g == msg.cultural_group
    IN IF distance_sq <= cultural_influence_radius * cultural_influence_radius
          /\ distance <= cultural_influence_radius
       THEN [acc EXCEPT
               !.influence_received_per_group =
                   IF g \in Groups THEN [@ EXCEPT ![g] = @ + effective_influence] ELSE @,
               !.total_weighted_influence_strength = @ + effective_influence]
       ELSE acc

\* a loop that stops at the first influence it has received
RECURSIVE CulturalLoopFirstOnly(_, _, _, _)
CulturalLoopFirstOnly(ag, message_in, i, acc) ==
    IF i > Len(message_in) THEN acc
    ELSE IF acc.total_weighted_influence_strength > 0 THEN acc
    ELSE CulturalLoopFirstOnly(ag, message_in, i + 1,
                               CulturalLoopBody(ag, message_in[i], acc))

RECURSIVE CulturalLoop(_, _, _, _)
CulturalLoop(ag, message_in, i, acc) ==
    IF i > Len(message_in) THEN acc
    ELSE CulturalLoop(ag, message_in, i + 1, CulturalLoopBody(ag, message_in[i], acc))

\* a shift by the received influence itself, not by its share of the total
ShiftAffinitiesUnweighted(affinities, acc) ==
    [i \in Groups |->
        IF acc.influence_received_per_group[i] > 0
        THEN Max(0, Min(Unit,
                 affinities[i]
                 + FMul(acc.influence_received_per_group[i], CULTURAL_SHIFT_FACTOR)))
        ELSE affinities[i]]

\* "for i in range(NUM_CULTURAL_GROUPS)": shift and clamp the groups that
\* received influence
ShiftAffinities(affinities, acc) ==
    [i \in Groups |->
        IF acc.influence_received_per_group[i] > 0
        THEN Max(0, Min(Unit,
                 affinities[i]
                 + FMul(FDiv(acc.influence_received_per_group[i],
                             acc.total_weighted_influence_strength),
                        CULTURAL_SHIFT_FACTOR)))
        ELSE affinities[i]]

\* a renormalization that is left out
RenormalizeSkipped(affinities) == affinities

Renormalize(affinities) ==
    LET current_total_affinity == Sum(affinities)
    IN IF current_total_affinity > 0
       THEN [i \in Groups |-> FDiv(affinities[i], current_total_affinity)]
       ELSE affinities

\* the argmax scan: s = <<max_affinity_value, new_cultural_group_id>>
RECURSIVE ArgmaxScan(_, _, _)
ArgmaxScan(affinities, i, s) ==
    IF i >= NUM_CULTURAL_GROUPS THEN s
    ELSE ArgmaxScan(affinities, i + 1,
                    IF affinities[i] > s[1] THEN <<affinities[i], i>> ELSE s)

\* a switch decision that also switches at the threshold
SwitchGroupAtThreshold(my_cultural_group_id, affinities) ==
    LET s == ArgmaxScan(affinities, 0, <<0, my_cultural_group_id>>)
    IN IF s[2] # my_cultural_group_id /\ s[1] >= GROUP_CHANGE_THRESHOLD
       THEN s[2] ELSE my_cultural_group_id

\* a switch decision that ignores the threshold
SwitchGroupNoThreshold(my_cultural_group_id, affinities) ==
    ArgmaxScan(affinities, 0, <<0, my_cultural_group_id>>)[2]

SwitchGroup(my_cultural_group_id, affinities) ==
    LET s == ArgmaxScan(affinities, 0, <<0, my_cultural_group_id>>)
    IN IF s[2] # my_cultural_group_id /\ s[1] > GROUP_CHANGE_THRESHOLD
       THEN s[2] ELSE my_cultural_group_id

CulturalReceived(ag, message_in) == CulturalLoop(ag, message_in, 1, CulturalLoopInit)

\* an aggregator that also acts on a total of exactly 0.01
CulturalThresholdInclusive(ag, message_in) ==
    LET acc == CulturalReceived(ag, message_in)
    IN IF acc.total_weighted_influence_strength >= Unit \div 100
       THEN LET affinities == Renormalize(ShiftAffinities(ag.cultural_affinity, acc))
            IN [ag EXCEPT !.cultural_affinity = affinities,
                          !.cultural_group = SwitchGroup(ag.cultural_group, affinities)]
       ELSE ag

process_cultural_influence_pyfgpu(ag, message_in) ==
    LET acc == CulturalReceived(ag, message_in)
    IN IF acc.total_weighted_influence_strength > Unit \div 100
       THEN LET affinities == Renormalize(ShiftAffinities(ag.cultural_affinity, acc))
            IN [ag EXCEPT !.cultural_affinity = affinities,
                          !.cultural_group = SwitchGroup(ag.cultural_group, affinities)]
       ELSE ag

\* ------------------------------------------------------------ the agents
Agents == 1 .. NAgents

Affinity(a0, a1, a2, a3, a4) ==
    [g \in Groups |-> IF g = 0 THEN a0 ELSE IF g = 1 THEN a1 ELSE IF g = 2 THEN a2
                      ELSE IF g = 3 THEN a3 ELSE a4]

\* the agent states the population manager creates
InitialAgents ==
    << \* a lively agent heading for the left border, happiness at its maximum
      [x |-> Unit, y |-> 2 * Unit, velocity_x |-> -Unit, velocity_y |-> 0,
       energy |-> (9 * Unit) \div 10, food_resources |-> 5 * Unit, age |-> 20 * Unit,
       happiness |-> Unit, social_reputation |-> Unit \div 2, num_connections |-> 0,
       cultural_group |-> 0,
       cultural_affinity |-> Affinity(420, 380, 100, 50, 50)],
      \* an exhausted but influential agent: energy exactly 0.1, no food
      [x |-> 2 * Unit, y |-> 2 * Unit, velocity_x |-> Unit, velocity_y |-> Unit,
       energy |-> Unit \div 10, food_resources |-> 0, age |-> 40 * Unit,
       happiness |-> (9 * Unit) \div 10, social_reputation |-> (9 * Unit) \div 10,
       num_connections |-> 3, cultural_group |-> 1,
       cultural_affinity |-> Affinity(100, 600, 100, 100, 100)],
      \* a quiet agent of group 3 whose affinity for group 1 is close behind
      [x |-> 3 * Unit, y |-> 2 * Unit, velocity_x |-> 0, velocity_y |-> 0,
       energy |-> Unit \div 100, food_resources |-> Unit \div 100, age |-> 30 * Unit,
       happiness |-> (3 * Unit) \div 10, social_reputation |-> (2 * Unit) \div 10,
       num_connections |-> 1, cultural_group |-> 3,
       cultural_affinity |-> Affinity(0, 400, 0, 500, 100)],
      \* a fast agent near the far corner with an all-zero affinity vector
      [x |-> 9 * Unit, y |-> 7 * Unit, velocity_x |-> 4 * Unit, velocity_y |-> 4 * Unit,
       energy |-> (25 * Unit) \div 100, food_resources |-> Unit, age |-> 25 * Unit,
       happiness |-> Unit \div 2, social_reputation |-> Unit, num_connections |-> 0,
       cultural_group |-> 2,
       cultural_affinity |-> Affinity(0, 0, 0, 0, 0)],
      \* an undecided agent at rest: energy exactly 0.2, its own group not its favourite
      [x |-> 4 * Unit, y |-> 3 * Unit, velocity_x |-> 0, velocity_y |-> 0,
       energy |-> (2 * Unit) \div 10, food_resources |-> 2 * Unit, age |-> 35 * Unit,
       happiness |-> (3 * Unit) \div 10, social_reputation |-> (3 * Unit) \div 10,
       num_connections |-> 2, cultural_group |-> 4,
       cultural_affinity |-> Affinity(330, 100, 200, 170, 200)] >>

\* the populations handed over: every choice of NAgents of these states, the
\* agents numbered in the order of the list
Populations ==
    { [a \in Agents |-> InitialAgents[f[a]]] :
        f \in {g \in [Agents -> 1 .. Len(InitialAgents)] :
                 \A a, b \in Agents : a < b => g[a] <= g[b]} }

\* ------------------------------------------------------------- scheduler
PhaseOrder == <<"Movement", "SocialBroadcast", "SocialAggregate",
                "CulturalBroadcast", "CulturalAggregate", "CoreStateUpdate">>
Phases == 1 .. Len(PhaseOrder)

NoRuns == [a \in Agents |-> [p \in Phases |-> 0]]

Init ==
    /\ env \in Environments
    /\ tick = 1
    /\ phase = 1
    /\ done = {}
    /\ agents \in Populations
    /\ social_messages = <<>>
    /\ cultural_messages = <<>>
    /\ \E seed \in Seeds : rng = [a \in Agents |-> (seed + 3 * a) % RngModulus]
    /\ snap = [agents |-> agents, rng |-> rng, start |-> agents, committed |-> <<>>]
    /\ runs = NoRuns

\* a message as stored in the list: the kernel's message, stamped with its tick
Stamp(msgs) == [i \in 1 .. Len(msgs) |-> msgs[i] @@ ("tick" :> tick)]

\* the task of agent a in phase p is ready to run
Ready(a, p) == PhaseOrder[phase] = p /\ a \notin done

\* ------------------------------------------------ agent function returns
ALIVE == "ALIVE"

\* the agent functions of the module: the six kernels, the trade and family stubs
AgentFunctions ==
    {"move_agent_pyfgpu", "update_agent_core_state_pyfgpu",
     "output_social_signal_pyfgpu", "process_social_interactions_pyfgpu",
     "output_cultural_influence_pyfgpu", "process_cultural_influence_pyfgpu",
     "output_trade_offers_pyfgpu", "process_trade_offers_pyfgpu",
     "output_family_signals_pyfgpu", "process_family_interactions_pyfgpu"}

\* a core state update that lets an agent without food die
ReturnDeadWhenStarved(fn, ag) ==
    IF fn = "update_agent_core_state_pyfgpu" /\ ag.food_resources = 0
    THEN "DEAD" ELSE ALIVE

\* what agent function fn returns for an agent it leaves in state ag
Return(fn, ag) == ALIVE

\* the population after a function has run for agent a, returned ret and left
\* a in state new: an agent stays exactly when its function returns ALIVE
Population(a, ret, new) ==
    IF ret = ALIVE THEN [agents EXCEPT ![a] = new]
    ELSE [b \in (DOMAIN agents) \ {a} |-> agents[b]]

\* the task of agent a completes
Completes(a) ==
    /\ done' = done \cup {a}
    /\ runs' = [runs EXCEPT ![a][phase] = @ + 1]
    /\ UNCHANGED <<env, tick, phase, snap>>

Movement(a) ==
    /\ Ready(a, "Movement")
    /\ LET new == move_agent_pyfgpu(agents[a], rng[a])
       IN agents' = Population(a, Return("move_agent_pyfgpu", new), new)
    /\ rng' = [rng EXCEPT ![a] = RngAdvance(@, MoveDraws(agents[a]))]
    /\ Completes(a)
    /\ UNCHANGED <<social_messages, cultural_messages>>

\* a broadcast task that stores its message over the list instead of appending
SocialBroadcastOverwrites(a) ==
    /\ Ready(a, "SocialBroadcast")
    /\ social_messages' = Stamp(output_social_signal_pyfgpu(a, agents[a]))
    /\ Completes(a)
    /\ UNCHANGED <<agents, rng, cultural_messages>>

SocialBroadcast(a) ==
    /\ Ready(a, "SocialBroadcast")
    /\ social_messages' =
           social_messages \o Stamp(output_social_signal_pyfgpu(a, agents[a]))
    /\ agents' = Population(a, Return("output_social_signal_pyfgpu", agents[a]),
                            agents[a])
    /\ Completes(a)
    /\ UNCHANGED <<rng, cultural_messages>>

\* an aggregator that also credits the senders of the messages in its list
SocialAggregateCreditsSender(a) ==
    /\ Ready(a, "SocialAggregate")
    /\ agents' =
         [b \in Agents |->
            IF b = a
            THEN process_social_interactions_pyfgpu(agents[a], social_messages, rng[a])
            ELSE IF \E i \in 1 .. Len(social_messages) : social_messages[i].sender_id = b
            THEN [agents[b] EXCEPT !.num_connections = @ + 1]
            ELSE agents[b]]
    /\ rng' = [rng EXCEPT ![a] = RngAdvance(@, SocialDraws(agents[a], social_messages))]
    /\ Completes(a)
    /\ UNCHANGED <<social_messages, cultural_messages>>

\* a social aggregate that leaves the receiver's own signal out of the list
SocialAggregateSkipsOwn(a) ==
    /\ Ready(a, "SocialAggregate")
    /\ LET FromOther(msg) == msg.sender_id # a
           heard == SelectSeq(social_messages, FromOther)
           new == process_social_interactions_pyfgpu(agents[a], heard, rng[a])
       IN /\ agents' =
                 Population(a, Return("process_social_interactions_pyfgpu", new), new)
          /\ rng' = [rng EXCEPT ![a] = RngAdvance(@, SocialDraws(agents[a], heard))]
    /\ Completes(a)
    /\ UNCHANGED <<social_messages, cultural_messages>>

SocialAggregate(a) ==
    /\ Ready(a, "SocialAggregate")
    /\ LET new == process_social_interactions_pyfgpu(agents[a], social_messages, rng[a])
       IN agents' =
              Population(a, Return("process_social_interactions_pyfgpu", new), new)
    /\ rng' = [rng EXCEPT ![a] = RngAdvance(@, SocialDraws(agents[a], social_messages))]
    /\ Completes(a)
    /\ UNCHANGED <<social_messages, cultural_messages>>

\* a cultural broadcast that reads the agent as the tick started
CulturalBroadcastReadsTickStart(a) ==
    /\ Ready(a, "CulturalBroadcast")
    /\ cultural_messages' =
           cultural_messages \o Stamp(output_cultural_influence_pyfgpu(a, snap.start[a]))
    /\ agents' = Population(a, Return("output_cultural_influence_pyfgpu", agents[a]),
                            agents[a])
    /\ Completes(a)
    /\ UNCHANGED <<rng, social_messages>>

CulturalBroadcast(a) ==
    /\ Ready(a, "CulturalBroadcast")
    /\ cultural_messages' =
           cultural_messages \o Stamp(output_cultural_influence_pyfgpu(a, agents[a]))
    /\ agents' = Population(a, Return("output_cultural_influence_pyfgpu", agents[a]),
                            agents[a])
    /\ Completes(a)
    /\ UNCHANGED <<rng, social_messages>>

\* an aggregator that takes the messages it has read off the list
CulturalAggregateConsumes(a) ==
    /\ Ready(a, "CulturalAggregate")
    /\ agents' = [agents EXCEPT
           ![a] = process_cultural_influence_pyfgpu(@, cultural_messages)]
    /\ cultural_messages' = <<>>
    /\ Completes(a)
    /\ UNCHANGED <<rng, social_messages>>

CulturalAggregate(a) ==
    /\ Ready(a, "CulturalAggregate")
    /\ LET new == process_cultural_influence_pyfgpu(agents[a], cultural_messages)
       IN agents' =
              Population(a, Return("process_cultural_influence_pyfgpu", new), new)
    /\ Completes(a)
    /\ UNCHANGED <<rng, social_messages, cultural_messages>>

CoreStateUpdate(a) ==
    /\ Ready(a, "CoreStateUpdate")
    /\ LET new == update_agent_core_state_pyfgpu(agents[a])
       IN agents' = Population(a, Return("update_agent_core_state_pyfgpu", new), new)
    /\ Completes(a)
    /\ UNCHANGED <<rng, social_messages, cultural_messages>>

\* the barrier: every task of the phase has completed
PhaseComplete == done = Agents

\* the phase change of Barrier
BarrierStep ==
    /\ phase < Len(PhaseOrder)
    /\ phase' = phase + 1
    /\ done' = {}
    /\ snap' = [agents |-> agents, rng |-> rng, start |-> snap.start,
              committed |-> Append(snap.committed, agents)]
    /\ social_messages' =
           IF PhaseOrder[phase] = "SocialAggregate" THEN <<>> ELSE social_messages
    /\ cultural_messages' =
           IF PhaseOrder[phase] = "CulturalAggregate" THEN <<>> ELSE cultural_messages
    /\ UNCHANGED <<env, tick, agents, rng, runs>>

\* a barrier that opens as soon as one task of the phase has completed
BarrierEarly == done # {} /\ BarrierStep

\* the next phase of the tick starts; a message list is dropped after its aggregate
Barrier == PhaseComplete /\ BarrierStep

\* the next tick starts
NextTick ==
    /\ PhaseComplete
    /\ phase = Len(PhaseOrder)
    /\ tick < MaxTicks
    /\ tick' = tick + 1
    /\ phase' = 1
    /\ done' = {}
    /\ snap' = [agents |-> agents, rng |-> rng, start |-> agents,
              committed |-> <<>>]
    /\ runs' = NoRuns
    /\ UNCHANGED <<env, agents, rng, social_messages, cultural_messages>>

Next ==
    \/ \E a \in Agents : Movement(a)
    \/ \E a \in Agents : SocialBroadcast(a)
    \/ \E a \in Agents : SocialAggregate(a)
    \/ \E a \in Agents : CulturalBroadcast(a)
    \/ \E a \in Agents : CulturalAggregate(a)
    \/ \E a \in Agents : CoreStateUpdate(a)
    \/ Barrier
    \/ NextTick

Spec == Init /\ [][Next]_vars

\* ------------------------------------------------------------ a long run
\* the environment without interactions: energy is spent alike in all
DecayEnvironment == CHOOSE e \in Environments : e.MAX_INTERACTIONS_PER_STEP = 0

\* a lively agent with all the energy an agent can have, and an exhausted one
DecayAgents == << [InitialAgents[1] EXCEPT !.energy = Unit], InitialAgents[2] >>

DecayPopulations ==
    { [a \in Agents |-> DecayAgents[f[a]]] :
        f \in {g \in [Agents -> 1 .. Len(DecayAgents)] :
                 \A a, b \in Agents : a < b => g[a] <= g[b]} }

DecayInit ==
    /\ env = DecayEnvironment
    /\ tick = 1
    /\ phase = 1
    /\ done = {}
    /\ agents \in DecayPopulations
    /\ social_messages = <<>>
    /\ cultural_messages = <<>>
    /\ rng = [a \in Agents |-> (3 * a) % RngModulus]
    /\ snap = [agents |-> agents, rng |-> rng, start |-> agents, committed |-> <<>>]
    /\ runs = NoRuns

\* the tick change of a long run
DecayNextTick ==
    /\ PhaseComplete
    /\ phase = Len(PhaseOrder)
    /\ tick < DecayTicks
    /\ tick' = tick + 1
    /\ phase' = 1
    /\ done' = {}
    /\ snap' = [agents |-> agents, rng |-> rng, start |-> agents,
              committed |-> <<>>]
    /\ runs' = NoRuns
    /\ UNCHANGED <<env, agents, rng, social_messages, cultural_messages>>

DecayNext ==
    \/ \E a \in Agents : Movement(a)
    \/ \E a \in Agents : SocialBroadcast(a)
    \/ \E a \in Agents : SocialAggregate(a)
    \/ \E a \in Agents : CulturalBroadcast(a)
    \/ \E a \in Agents : CulturalAggregate(a)
    \/ \E a \in Agents : CoreStateUpdate(a)
    \/ Barrier
    \/ DecayNextTick

\* the scheduler runs every tick to its end: every task returns, so that
\* every phase completes, and a completed phase is followed by the next
DecaySpec ==
    /\ DecayInit /\ [][DecayNext]_vars
    /\ []<>PhaseComplete
    /\ WF_vars(Barrier) /\ WF_vars(DecayNextTick)

\* ------------------------------------------------- the documented scenarios
\* the environment of the documented scenarios: both radii 10
ScenarioEnvironment ==
    [world_width |-> 20 * Unit, world_height |-> 20 * Unit,
     interaction_radius |-> 10 * Unit, cultural_influence_radius |-> 10 * Unit,
     MAX_INTERACTIONS_PER_STEP |-> 2, INFLUENCE_STRENGTH_FACTOR |-> Unit,
     CULTURAL_SHIFT_FACTOR |-> Unit \div 10,
     GROUP_CHANGE_THRESHOLD |-> (4 * Unit) \div 10,
     STEPS_PER_YEAR |-> 100 * Unit]

\* the scenario environment, and the same with a doubled influence factor
ScenarioEnvironments ==
    { ScenarioEnvironment,
      [ScenarioEnvironment EXCEPT !.INFLUENCE_STRENGTH_FACTOR = 2 * Unit] }

\* the agents of the documented scenarios, as Movement has left them
ScenarioAgents ==
    << \* the receiver at the origin: too tired to broadcast, too unhappy to influence
      [x |-> 0, y |-> 0, velocity_x |-> 0, velocity_y |-> 0,
       energy |-> (2 * Unit) \div 10, food_resources |-> Unit, age |-> 20 * Unit,
       happiness |-> Unit \div 10, social_reputation |-> Unit \div 2,
       num_connections |-> 0, cultural_group |-> 0,
       cultural_affinity |-> Affinity(600, 100, 100, 100, 100)],
      \* the sender at (3, 4), same group, broadcasting strength 0.5 * 0.8 = 0.4
      [x |-> 3 * Unit, y |-> 4 * Unit, velocity_x |-> 0, velocity_y |-> 0,
       energy |-> (8 * Unit) \div 10, food_resources |-> Unit, age |-> 20 * Unit,
       happiness |-> Unit \div 10, social_reputation |-> Unit \div 2,
       num_connections |-> 0, cultural_group |-> 0,
       cultural_affinity |-> Affinity(1000, 0, 0, 0, 0)],
      \* the influencer of group 1 at (0, 9): influence 1.0 * 0.5 = 0.5, no social signal
      [x |-> 0, y |-> 9 * Unit, velocity_x |-> 0, velocity_y |-> 0,
       energy |-> (2 * Unit) \div 10, food_resources |-> Unit, age |-> 20 * Unit,
       happiness |-> Unit \div 2, social_reputation |-> Unit,
       num_connections |-> 0, cultural_group |-> 1,
       cultural_affinity |-> Affinity(0, 1000, 0, 0, 0)],
      \* a silent agent 9.8 away from the influencer: it receives 0.5 * 0.02 = 0.01;
      \* its affinities are 2/3, 1/6, 1/6 to three decimals
      [x |-> 0, y |-> (188 * Unit) \div 10, velocity_x |-> 0, velocity_y |-> 0,
       energy |-> Unit \div 10, food_resources |-> Unit, age |-> 20 * Unit,
       happiness |-> (3 * Unit) \div 10, social_reputation |-> (2 * Unit) \div 10,
       num_connections |-> 0, cultural_group |-> 2,
       cultural_affinity |-> Affinity(667, 167, 167, 0, 0)],
      \* a silent agent 9.9 away from the influencer: it receives 0.5 * 0.01 = 0.005
      [x |-> 0, y |-> (189 * Unit) \div 10, velocity_x |-> 0, velocity_y |-> 0,
       energy |-> Unit \div 10, food_resources |-> Unit, age |-> 20 * Unit,
       happiness |-> (3 * Unit) \div 10, social_reputation |-> (2 * Unit) \div 10,
       num_connections |-> 0, cultural_group |-> 2,
       cultural_affinity |-> Affinity(200, 200, 500, 50, 50)],
      \* a loud agent of group 3 at (12, 4), happiness and reputation at their
      \* maximum: in range of the sender, out of range of the receiver
      [x |-> 12 * Unit, y |-> 4 * Unit, velocity_x |-> Unit, velocity_y |-> 0,
       energy |-> Unit, food_resources |-> Unit, age |-> 20 * Unit,
       happiness |-> Unit, social_reputation |-> Unit,
       num_connections |-> 0, cultural_group |-> 3,
       cultural_affinity |-> Affinity(100, 100, 100, 600, 100)],
      \* a silent agent of group 0 at (3, 14): exactly 10 away from the sender
      [x |-> 3 * Unit, y |-> 14 * Unit, velocity_x |-> 0, velocity_y |-> 0,
       energy |-> Unit \div 10, food_resources |-> Unit, age |-> 20 * Unit,
       happiness |-> (3 * Unit) \div 10, social_reputation |-> (2 * Unit) \div 10,
       num_connections |-> 0, cultural_group |-> 0,
       cultural_affinity |-> Affinity(600, 100, 100, 100, 100)] >>

ScenarioPopulations ==
    { [a \in Agents |-> ScenarioAgents[f[a]]] :
        f \in {g \in [Agents -> 1 .. Len(ScenarioAgents)] :
                 \A a, b \in Agents : a < b => g[a] <= g[b]} }

\* a scenario starts as the Social Broadcast phase of the first tick starts
ScenarioInit ==
    /\ env \in ScenarioEnvironments
    /\ tick = 1
    /\ phase = 2
    /\ done = {}
    /\ agents \in ScenarioPopulations
    /\ social_messages = <<>>
    /\ cultural_messages = <<>>
    /\ \E seed \in Seeds : rng = [a \in Agents |-> (seed + 3 * a) % RngModulus]
    /\ snap = [agents |-> agents, rng |-> rng, start |-> agents,
             committed |-> <<agents>>]
    /\ runs = [a \in Agents |-> [p \in Phases |-> IF p < 2 THEN 1 ELSE 0]]

ScenarioSpec == ScenarioInit /\ [][Next]_vars

\* ================================================================ claims
InPhase(p) == PhaseOrder[phase] = p

\* the agents whose task of the phase named p has completed
Done(p) == IF InPhase(p) THEN done ELSE {}

\* C1: in every tick each agent runs the six phases exactly once each, in the
\* order Movement, Social Broadcast, Social Aggregate, Cultural Broadcast,
\* Cultural Aggregate, Core-State Update, and no agent has run a task of a
\* phase while a task of an earlier phase of the tick has not completed for
\* some agent: every agent has run every phase before the current one once,
\* the current one at most once, and no later one.
C1_PhaseOrderBarrier ==
    /\ PhaseOrder = <<"Movement", "SocialBroadcast", "SocialAggregate",
                      "CulturalBroadcast", "CulturalAggregate", "CoreStateUpdate">>
    /\ \A a \in Agents : \A p \in Phases :
         runs[a][p] = IF p < phase \/ (p = phase /\ a \in done) THEN 1 ELSE 0
    /\ \A a, b \in Agents : \A p, q \in Phases :
         (p < q /\ runs[b][q] > 0) => runs[a][p] = 1

\* an agent has run Core-State Update in the second tick while the other has not
C1_Witness ==
    /\ tick = 2 /\ InPhase("CoreStateUpdate")
    /\ \E a, b \in Agents : a \in done /\ b \notin done /\ runs[a][phase] = 1

\* the social messages of this tick: one per agent whose energy exceeded 0.2
\* as the aggregate phase started, carrying that agent's position and group
SocialEmitted ==
    { [sender_id |-> a, sender_x |-> snap.agents[a].x, sender_y |-> snap.agents[a].y,
       cultural_group |-> snap.agents[a].cultural_group,
       interaction_strength |->
           Min(Unit, FMul(snap.agents[a].social_reputation, snap.agents[a].energy)),
       tick |-> tick] :
      a \in {b \in Agents : 5 * snap.agents[b].energy > Unit} }

\* the cultural messages of this tick
CulturalEmitted ==
    { [influencer_id |-> a, influencer_x |-> snap.agents[a].x,
       influencer_y |-> snap.agents[a].y,
       cultural_group |-> snap.agents[a].cultural_group,
       influence_strength |->
           FMul(FMul(snap.agents[a].social_reputation, snap.agents[a].happiness),
                INFLUENCE_STRENGTH_FACTOR),
       tick |-> tick] :
      a \in {b \in Agents :
               10 * FMul(FMul(snap.agents[b].social_reputation, snap.agents[b].happiness),
                         INFLUENCE_STRENGTH_FACTOR) > Unit} }

Range(f) == {f[i] : i \in DOMAIN f}

\* C2: during an Aggregate phase the message list holds exactly the messages
\* the Broadcast phase of the same tick emitted, each once, all stamped with
\* this tick; a list is empty as its Broadcast phase starts and outside its
\* Broadcast and Aggregate phases.
C2_MessageSetClosed ==
    /\ InPhase("SocialAggregate") =>
         /\ Range(social_messages) = SocialEmitted
         /\ Len(social_messages) = Cardinality(SocialEmitted)
    /\ InPhase("CulturalAggregate") =>
         /\ Range(cultural_messages) = CulturalEmitted
         /\ Len(cultural_messages) = Cardinality(CulturalEmitted)
    /\ (InPhase("SocialBroadcast") /\ done = {}) => social_messages = <<>>
    /\ (InPhase("CulturalBroadcast") /\ done = {}) => cultural_messages = <<>>
    /\ ~(InPhase("SocialBroadcast") \/ InPhase("SocialAggregate"))
         => social_messages = <<>>
    /\ ~(InPhase("CulturalBroadcast") \/ InPhase("CulturalAggregate"))
         => cultural_messages = <<>>

\* in the second tick an aggregator has run on a list of two messages
C2_Witness ==
    /\ tick = 2 /\ InPhase("SocialAggregate") /\ done # {}
    /\ Len(social_messages) = 2

\* what the task of the current phase makes of agent a as the phase started
PhaseResult(a) ==
    LET ag == snap.agents[a]
        s == snap.rng[a]
    IN CASE InPhase("Movement") ->
              [ag |-> move_agent_pyfgpu(ag, s), rng |-> RngAdvance(s, MoveDraws(ag))]
         [] InPhase("SocialAggregate") ->
              [ag |-> process_social_interactions_pyfgpu(ag, social_messages, s),
               rng |-> RngAdvance(s, SocialDraws(ag, social_messages))]
         [] InPhase("CulturalAggregate") ->
              [ag |-> process_cultural_influence_pyfgpu(ag, cultural_messages), rng |-> s]
         [] InPhase("CoreStateUpdate") ->
              [ag |-> update_agent_core_state_pyfgpu(ag), rng |-> s]
         [] OTHER -> [ag |-> ag, rng |-> s]

\* C3: within a phase the tasks share no mutable state: whatever the order in
\* which the tasks have run so far, an agent whose task has completed holds
\* the result of the kernel on its own variables and random stream as the phase
\* started and on the message list, and an agent whose task has not run yet is
\* as it was when the phase started.
C3_TasksIndependent ==
    \A a \in Agents :
        IF a \in done
        THEN LET result == PhaseResult(a)
             IN agents[a] = result.ag /\ rng[a] = result.rng
        ELSE agents[a] = snap.agents[a] /\ rng[a] = snap.rng[a]

\* one aggregator task has changed its agent while another agent, a sender of
\* a message in the list, still waits for its task
C3_Witness ==
    /\ InPhase("SocialAggregate")
    /\ \E a, b \in Agents :
         /\ a \in done /\ b \notin done
         /\ agents[a] # snap.agents[a]
         /\ \E i \in 1 .. Len(social_messages) : social_messages[i].sender_id = b

\* the local variables of the social aggregator's loop for agent a, as it ended
SocialAcc(a) ==
    SocialLoop(snap.agents[a], social_messages, snap.rng[a], 1,
               SocialLoopInit(snap.agents[a]))

\* the influence agent a received in the cultural aggregator's loop
CulturalAcc(a) == CulturalReceived(snap.agents[a], cultural_messages)

\* the cultural aggregator reached its switch decision for agent a
ReachedDecision(a) == 100 * CulturalAcc(a).total_weighted_influence_strength > Unit

InUnitInterval(v) == 0 <= v /\ v <= Unit

\* C4: in every reachable state, and so after every social and every cultural
\* aggregator pass of every tick, each agent's happiness, reputation, energy
\* and five affinity components lie in [0, 1].
C4_ValuesInUnitInterval ==
    \A a \in Agents :
        /\ InUnitInterval(agents[a].happiness)
        /\ InUnitInterval(agents[a].social_reputation)
        /\ InUnitInterval(agents[a].energy)
        /\ \A g \in Groups : InUnitInterval(agents[a].cultural_affinity[g])

\* a social aggregator pass whose happiness delta had to be clamped at 1, and
\* one that changed the affinity vector
C4_Witness ==
    /\ InPhase("SocialAggregate")
    /\ \E a \in done :
         /\ snap.agents[a].happiness + SocialAcc(a).happiness_change > Unit
         /\ agents[a].happiness = Unit
    /\ \E a \in done : agents[a].cultural_affinity # snap.agents[a].cultural_affinity

\* the tolerance of a sum of five rounded quotients
Epsilon == Unit \div 200

\* the affinity vector of agent a just before the aggregator's renormalization
\* (the vector as read when the cultural aggregator stops at its noise threshold)
PreNormalization(a) ==
    IF InPhase("SocialAggregate") THEN SocialAcc(a).cultural_affinities
    ELSE IF ReachedDecision(a)
         THEN ShiftAffinities(snap.agents[a].cultural_affinity, CulturalAcc(a))
         ELSE snap.agents[a].cultural_affinity

\* C5: after an aggregator pass (social or cultural) of an agent, the affinity
\* components sum to 1 within Epsilon if the vector's sum before the
\* renormalization was positive, and the vector is as it was if that sum was 0.
C5_AffinityNormalized ==
    \A a \in Done("SocialAggregate") \cup Done("CulturalAggregate") :
        LET total == Sum(PreNormalization(a))
        IN /\ total > 0
                => Abs(Sum(agents[a].cultural_affinity) - Unit) <= Epsilon
           /\ total = 0
                => agents[a].cultural_affinity = snap.agents[a].cultural_affinity

\* a cultural pass that had to renormalize a vector summing to more than 1
C5_Witness ==
    \E a \in Done("CulturalAggregate") :
        /\ Sum(PreNormalization(a)) > Unit + Epsilon
        /\ Abs(Sum(agents[a].cultural_affinity) - Unit) <= Epsilon

\* agent a has run Movement in the current tick
Moved(a) == phase > 1 \/ a \in Done("Movement")

\* C6: after the Movement phase every agent's position lies within the world
\* bounds, and the border reflects: an agent that moved is displaced on each
\* axis by no more than its velocity component, and at a border its velocity
\* does not point outwards.
C6_PositionInWorld ==
    /\ \A a \in Agents :
         Moved(a) => /\ 0 <= agents[a].x /\ agents[a].x <= world_width
                     /\ 0 <= agents[a].y /\ agents[a].y <= world_height
    /\ \A a \in Done("Movement") :
         /\ Abs(agents[a].x - snap.agents[a].x) <= Abs(agents[a].velocity_x)
         /\ Abs(agents[a].y - snap.agents[a].y) <= Abs(agents[a].velocity_y)
         /\ 10 * snap.agents[a].energy > Unit =>
              /\ agents[a].x = 0 => agents[a].velocity_x >= 0
              /\ agents[a].x = world_width => agents[a].velocity_x <= 0
              /\ agents[a].y = 0 => agents[a].velocity_y >= 0
              /\ agents[a].y = world_height => agents[a].velocity_y <= 0

\* one agent was reflected at the left border and another at the far corner
C6_Witness ==
    /\ \E a \in Done("Movement") :
         /\ snap.agents[a].x > 0 /\ agents[a].x = 0 /\ agents[a].velocity_x > 0
    /\ \E a \in Done("Movement") :
         /\ snap.agents[a].x < world_width /\ agents[a].x = world_width
         /\ agents[a].y = world_height /\ agents[a].velocity_y < 0

\* C7: Movement is the identity on an agent whose energy is at most 0.1:
\* position, velocity, energy and every other variable are unchanged and the
\* agent's random stream has not advanced.
C7_TiredAgentStays ==
    \A a \in Done("Movement") :
        10 * snap.agents[a].energy <= Unit
            => agents[a] = snap.agents[a] /\ rng[a] = snap.rng[a]

\* an agent with energy exactly 0.1 and a nonzero velocity has run Movement,
\* and so has an agent with energy below 0.1
C7_Witness ==
    /\ \E a \in Done("Movement") :
         /\ 10 * snap.agents[a].energy = Unit
         /\ snap.agents[a].velocity_x # 0
    /\ \E a \in Done("Movement") : 10 * snap.agents[a].energy < Unit

\* the lowest index among the greatest components of an affinity vector
Argmax(affinities) ==
    CHOOSE i \in Groups :
        /\ \A j \in Groups : affinities[j] <= affinities[i]
        /\ \A j \in Groups : j < i => affinities[j] < affinities[i]

\* C8: the cultural aggregator changes an agent's group_id exactly when it
\* reaches the switch decision, the argmax index of the renormalized affinity
\* vector differs from the current group_id and the argmax's affinity is
\* strictly greater than GROUP_CHANGE_THRESHOLD, and then to the argmax; in
\* every other case and in every other phase group_id is unchanged.
C8_SwitchOnlyAboveThreshold ==
    /\ \A a \in Done("CulturalAggregate") :
         LET old == snap.agents[a].cultural_group
             am == Argmax(agents[a].cultural_affinity)
             switch == /\ ReachedDecision(a)
                       /\ am # old
                       /\ agents[a].cultural_affinity[am] > GROUP_CHANGE_THRESHOLD
         IN agents[a].cultural_group = IF switch THEN am ELSE old
    /\ \A a \in Agents \ Done("CulturalAggregate") :
         agents[a].cultural_group = snap.agents[a].cultural_group

\* a pass has reached the switch decision for an agent whose argmax differs
\* from its group and lies at the threshold exactly, and the agent has kept
\* its group
C8_Witness ==
    \E a \in Done("CulturalAggregate") :
        LET am == Argmax(agents[a].cultural_affinity)
        IN /\ ReachedDecision(a)
           /\ am # snap.agents[a].cultural_group
           /\ agents[a].cultural_affinity[am] = GROUP_CHANGE_THRESHOLD
           /\ agents[a].cultural_group = snap.agents[a].cultural_group

\* C9: identical affinity values never trigger a group switch: an agent whose
\* current group's affinity ties the greatest affinity of the renormalized
\* vector keeps its group_id in the cultural aggregator.
C9_TieKeepsGroup ==
    \A a \in Done("CulturalAggregate") :
        LET old == snap.agents[a].cultural_group
            am == Argmax(agents[a].cultural_affinity)
        IN agents[a].cultural_affinity[old] = agents[a].cultural_affinity[am]
               => agents[a].cultural_group = old

\* C10: after a cultural aggregator pass that reaches the switch decision the
\* agent's group_id is an index in 0..4 whose affinity is strictly greater
\* than every other component.
C10_GroupIsStrictArgmax ==
    \A a \in Done("CulturalAggregate") :
        ReachedDecision(a) =>
            /\ agents[a].cultural_group \in Groups
            /\ \A g \in Groups \ {agents[a].cultural_group} :
                 agents[a].cultural_affinity[g]
                     < agents[a].cultural_affinity[agents[a].cultural_group]

\* C10 as amended: after a cultural aggregator pass that changes the agent's
\* group_id, the new group_id is an index in 0..4 whose affinity is strictly
\* greater than GROUP_CHANGE_THRESHOLD, at least every other component and
\* strictly greater than every component of lower index, and it differs from
\* the old one; a pass that reaches the decision without these keeps group_id.
C10_SwitchedGroupIsArgmax ==
    \A a \in Done("CulturalAggregate") :
        LET old == snap.agents[a].cultural_group
            new == agents[a].cultural_group
            aff == agents[a].cultural_affinity
        IN /\ new \in Groups
           /\ new # old =>
                /\ ReachedDecision(a)
                /\ aff[new] > GROUP_CHANGE_THRESHOLD
                /\ \A g \in Groups : aff[g] <= aff[new]
                /\ \A g \in Groups : g < new => aff[g] < aff[new]

\* a pass has switched an agent to a group that is strictly its favourite
C10_Witness ==
    \E a \in Done("CulturalAggregate") :
        /\ agents[a].cultural_group # snap.agents[a].cultural_group
        /\ \A g \in Groups \ {agents[a].cultural_group} :
             agents[a].cultural_affinity[g]
                 < agents[a].cultural_affinity[agents[a].cultural_group]

\* the tick has no message: no agent has emitted a social signal and none a
\* cultural signal
EmptyTick == SocialEmitted = {} /\ CulturalEmitted = {}

\* C11: identity law: in a tick whose social and cultural message sets are
\* both empty, the social aggregator and the cultural aggregator leave an
\* agent's happiness, reputation, connection count and every affinity
\* component exactly unchanged.
C11_EmptyTickIsIdentity ==
    EmptyTick =>
        \A a \in Done("SocialAggregate") \cup Done("CulturalAggregate") :
            /\ agents[a].happiness = snap.agents[a].happiness
            /\ agents[a].social_reputation = snap.agents[a].social_reputation
            /\ agents[a].num_connections = snap.agents[a].num_connections
            /\ agents[a].cultural_affinity = snap.agents[a].cultural_affinity

\* C11 as amended: in a tick whose message sets are both empty the cultural
\* aggregator changes nothing of an agent, and the social aggregator leaves
\* happiness, reputation, connection count and group unchanged and divides
\* every affinity component by the vector's sum when that sum is positive:
\* the vector is exactly unchanged when its sum is exactly 1 or 0.
C11_EmptyTickRenormalizes ==
    EmptyTick =>
        /\ \A a \in Done("CulturalAggregate") : agents[a] = snap.agents[a]
        /\ \A a \in Done("SocialAggregate") :
             LET old == snap.agents[a].cultural_affinity
             IN /\ agents[a] = [snap.agents[a] EXCEPT
                        !.cultural_affinity =
                            IF Sum(old) > 0
                            THEN [g \in Groups |-> FDiv(old[g], Sum(old))] ELSE old]
                /\ Sum(old) \in {0, Unit} => agents[a] = snap.agents[a]

\* in a tick without messages the social aggregator has renormalized a vector
\* summing to 1.001, and another agent's vector summing to 1 is as it was
C11_Witness ==
    /\ EmptyTick
    /\ \E a \in Done("SocialAggregate") :
         /\ Sum(snap.agents[a].cultural_affinity) > Unit
         /\ agents[a].cultural_affinity # snap.agents[a].cultural_affinity
    /\ \E a \in Done("SocialAggregate") :
         /\ Sum(snap.agents[a].cultural_affinity) = Unit
         /\ agents[a] = snap.agents[a]

\* C12: anti-noise threshold: an agent whose total distance-weighted cultural
\* influence of the tick is at most 0.01 (exactly 0.01 and the empty message
\* set included) is left as it was by the cultural aggregator: no affinity
\* component is changed or renormalized and group_id is unchanged.
C12_NoiseIsIgnored ==
    \A a \in Done("CulturalAggregate") :
        100 * CulturalAcc(a).total_weighted_influence_strength <= Unit
            => agents[a] = snap.agents[a]

\* an agent has received exactly 0.01 from an influencer of another group and
\* is as it was, although its favourite group is not its own and lies above
\* the switch threshold
C12_Witness ==
    \E a \in Done("CulturalAggregate") :
        /\ Len(cultural_messages) > 0
        /\ 100 * CulturalAcc(a).total_weighted_influence_strength = Unit
        /\ agents[a] = snap.agents[a]
        /\ Argmax(agents[a].cultural_affinity) # agents[a].cultural_group
        /\ agents[a].cultural_affinity[Argmax(agents[a].cultural_affinity)]
               > GROUP_CHANGE_THRESHOLD

\* the distance between a receiver and the sender of a social message
SenderDistance(ag, msg) == Sqrt(DistanceSq(ag.x, ag.y, msg.sender_x, msg.sender_y))

\* the message lies within the interaction radius of the receiver
WithinRadius(ag, msg) == SenderDistance(ag, msg) <= interaction_radius

\* 1 - distance / radius, and 1 when the radius is 0
LinearFalloff(distance, radius) ==
    IF radius > 0 THEN Unit - FDiv(distance, radius) ELSE Unit

\* strength * similarity * (1 - distance / radius)
Effect(ag, msg) ==
    FMul(FMul(msg.interaction_strength,
              IF msg.cultural_group = ag.cultural_group THEN Unit ELSE (3 * Unit) \div 10),
         LinearFalloff(SenderDistance(ag, msg), interaction_radius))

\* the positions in the social message list of the messages agent a accepts:
\* those within its radius with fewer than MAX_INTERACTIONS_PER_STEP such
\* messages before them
Accepted(a) ==
    LET near == {i \in 1 .. Len(social_messages) :
                   WithinRadius(snap.agents[a], social_messages[i])}
    IN {i \in near : Cardinality({j \in near : j < i}) < MAX_INTERACTIONS_PER_STEP}

\* the sum over the accepted messages of effect * factor
RECURSIVE EffectSum(_, _, _)
EffectSum(a, S, factor) ==
    IF S = {} THEN 0
    ELSE LET i == CHOOSE j \in S : TRUE
         IN FMul(Effect(snap.agents[a], social_messages[i]), factor)
            + EffectSum(a, S \ {i}, factor)

Clamp(v) == Max(0, Min(Unit, v))

\* message i is the scenario's: sent from (3, 4) by an agent of group 0 with
\* strength 0.4 to receiver a at the origin, of group 0, under radius 10
ScenarioMessage(a, i) ==
    /\ interaction_radius = 10 * Unit
    /\ snap.agents[a].x = 0 /\ snap.agents[a].y = 0
    /\ snap.agents[a].cultural_group = 0
    /\ social_messages[i].sender_x = 3 * Unit /\ social_messages[i].sender_y = 4 * Unit
    /\ social_messages[i].cultural_group = 0
    /\ social_messages[i].interaction_strength = (4 * Unit) \div 10

\* C13: after the social aggregator the receiver's happiness is its old
\* happiness plus the sum over its accepted messages of effect * 0.05, clamped
\* to [0, 1], and its reputation the same with effect * 0.02, where effect =
\* strength * similarity * (1 - distance / radius), similarity is 1.0 for the
\* receiver's group and 0.3 otherwise, and a message farther than the radius
\* is not accepted.  In the scenario the distance factor is 0.5, the effect
\* 0.2, the happiness delta 0.01 and the reputation delta 0.004.
C13_SocialEffect ==
    \A a \in Done("SocialAggregate") :
        /\ agents[a].happiness =
               Clamp(snap.agents[a].happiness
                     + EffectSum(a, Accepted(a), (5 * Unit) \div 100))
        /\ agents[a].social_reputation =
               Clamp(snap.agents[a].social_reputation
                     + EffectSum(a, Accepted(a), (2 * Unit) \div 100))
        /\ \A i \in 1 .. Len(social_messages) :
             ScenarioMessage(a, i) =>
                /\ LinearFalloff(SenderDistance(snap.agents[a], social_messages[i]),
                                 interaction_radius) = Unit \div 2
                /\ Effect(snap.agents[a], social_messages[i]) = (2 * Unit) \div 10
                /\ Accepted(a) = {i} =>
                     /\ agents[a].happiness
                            = snap.agents[a].happiness + Unit \div 100
                     /\ agents[a].social_reputation
                            = snap.agents[a].social_reputation + (4 * Unit) \div 1000

\* the scenario's receiver has processed the scenario's message, its only one
C13_Witness ==
    /\ InPhase("SocialAggregate")
    /\ \E a \in done : \E i \in 1 .. Len(social_messages) :
         /\ ScenarioMessage(a, i)
         /\ Accepted(a) = {i}
         /\ agents[a].happiness = snap.agents[a].happiness + Unit \div 100

\* the positions in the cultural message list of the messages of group g
\* within the cultural influence radius of agent a
Influences(a, g) ==
    {i \in 1 .. Len(cultural_messages) :
        /\ cultural_messages[i].cultural_group = g
        /\ Sqrt(DistanceSq(snap.agents[a].x, snap.agents[a].y,
                           cultural_messages[i].influencer_x,
                           cultural_messages[i].influencer_y))
               <= cultural_influence_radius}

\* the sum over the messages at the positions S of strength * (1 - distance / radius)
RECURSIVE InfluenceSum(_, _)
InfluenceSum(a, S) ==
    IF S = {} THEN 0
    ELSE LET i == CHOOSE j \in S : TRUE
             msg == cultural_messages[i]
             distance == Sqrt(DistanceSq(snap.agents[a].x, snap.agents[a].y,
                                         msg.influencer_x, msg.influencer_y))
         IN FMul(msg.influence_strength,
                 LinearFalloff(distance, cultural_influence_radius))
            + InfluenceSum(a, S \ {i})

\* received[g] and the total received by agent a
Received(a) == [g \in Groups |-> InfluenceSum(a, Influences(a, g))]
TotalReceived(a) == Sum(Received(a))

\* the affinity vector of agent a after the shift and the clamp
RawAffinity(a) ==
    LET received == Received(a)
        total == Sum(received)
        old == snap.agents[a].cultural_affinity
    IN [g \in Groups |->
          IF received[g] > 0
          THEN Clamp(old[g] + FMul(FDiv(received[g], total), CULTURAL_SHIFT_FACTOR))
          ELSE old[g]]

\* agent a is the scenario's: affinity [0.6, 0.1, 0.1, 0.1, 0.1], a total
\* influence of 0.05 all for group 1, CULTURAL_SHIFT_FACTOR 0.1
ScenarioInfluence(a) ==
    /\ snap.agents[a].cultural_affinity = Affinity(600, 100, 100, 100, 100)
    /\ snap.agents[a].cultural_group = 0
    /\ TotalReceived(a) = (5 * Unit) \div 100
    /\ Received(a)[1] = TotalReceived(a)
    /\ CULTURAL_SHIFT_FACTOR = Unit \div 10

\* C14: when the total cultural influence an agent received exceeds 0.01, its
\* affinity vector after the cultural aggregator is the old one with
\* (received[g] / total) * CULTURAL_SHIFT_FACTOR added to exactly the groups g
\* with received[g] > 0, each of those clamped to [0, 1], and the whole then
\* divided by its sum.  In the scenario the raw affinity[1] is 0.2, the raw
\* vector sums to 1.1, the result is [0.545, 0.182, 0.091, 0.091, 0.091] and
\* the group remains 0.
C14_CulturalShift ==
    \A a \in Done("CulturalAggregate") :
        LET raw == RawAffinity(a)
            sum == Sum(raw)
        IN /\ 100 * TotalReceived(a) > Unit =>
                agents[a].cultural_affinity =
                    IF sum > 0 THEN [g \in Groups |-> FDiv(raw[g], sum)] ELSE raw
           /\ ScenarioInfluence(a) =>
                /\ raw[1] = (2 * Unit) \div 10
                /\ sum = (11 * Unit) \div 10
                /\ agents[a].cultural_affinity = Affinity(545, 182, 91, 91, 91)
                /\ agents[a].cultural_group = 0

\* the scenario's agent has run the cultural aggregator
C14_Witness ==
    \E a \in Done("CulturalAggregate") :
        /\ ScenarioInfluence(a)
        /\ agents[a].cultural_affinity[0] = 545
        /\ agents[a].cultural_affinity[1] = 182

\* C15: processing a message never mutates its sender: a step of the social
\* or the cultural Aggregate phase for receiver r leaves every other agent,
\* the senders of the messages r reads included, and both message lists as
\* they were, and of r itself it changes at most happiness, reputation,
\* connection count and affinity (social), affinity and group_id (cultural).
C15_OnlyReceiverChanges ==
    [][\A r \in Agents \ done :
          (done' = done \cup {r}
           /\ (InPhase("SocialAggregate") \/ InPhase("CulturalAggregate")))
          => /\ \A b \in Agents \ {r} : agents'[b] = agents[b]
             /\ social_messages' = social_messages
             /\ cultural_messages' = cultural_messages
             /\ InPhase("SocialAggregate") =>
                  agents'[r] = [agents[r] EXCEPT
                      !.happiness = agents'[r].happiness,
                      !.social_reputation = agents'[r].social_reputation,
                      !.num_connections = agents'[r].num_connections,
                      !.cultural_affinity = agents'[r].cultural_affinity]
             /\ InPhase("CulturalAggregate") =>
                  agents'[r] = [agents[r] EXCEPT
                      !.cultural_affinity = agents'[r].cultural_affinity,
                      !.cultural_group = agents'[r].cultural_group]]_vars

\* a receiver has been changed by the cultural message of an influencer that
\* still waits for its own step and is as it was
C15_Witness ==
    /\ InPhase("CulturalAggregate")
    /\ \E r, b \in Agents :
         /\ r \in done /\ b \notin done
         /\ agents[r].cultural_affinity # snap.agents[r].cultural_affinity
         /\ \E i \in 1 .. Len(cultural_messages) :
              /\ cultural_messages[i].influencer_id = b
              /\ cultural_messages[i].influencer_x = agents[b].x
              /\ cultural_messages[i].influencer_y = agents[b].y
         /\ agents[b] = snap.agents[b]

\* every variable of the agent holds a number
Numeric(ag) ==
    /\ \A v \in {ag.x, ag.y, ag.velocity_x, ag.velocity_y, ag.energy,
                 ag.food_resources, ag.age, ag.happiness, ag.social_reputation,
                 ag.num_connections, ag.cultural_group} : v \in Int
    /\ \A g \in Groups : ag.cultural_affinity[g] \in Int

\* C17: no kernel signals an error: the kernel of the phase yields a value
\* for every variable of every agent that has not run yet, and on the
\* degenerate inputs it yields the guarded result: under interaction radius 0 only co-located senders are
\* accepted, with distance factor 1; an empty social set changes neither
\* happiness, reputation nor connections; an empty cultural set or a total
\* influence of 0 changes nothing; an affinity vector whose sum is 0 is not
\* renormalized; STEPS_PER_YEAR = 0 leaves the age unchanged; an agent at rest
\* that moves is displaced by its perturbation only.
C17_DegenerateInputs ==
    /\ \A a \in Agents \ done : LET result == PhaseResult(a) IN Numeric(result.ag)
    /\ \A a \in Done("SocialAggregate") :
         /\ interaction_radius = 0 =>
              /\ \A i \in Accepted(a) :
                   /\ social_messages[i].sender_x = snap.agents[a].x
                   /\ social_messages[i].sender_y = snap.agents[a].y
              /\ agents[a].happiness =
                     Clamp(snap.agents[a].happiness
                           + EffectSum(a, Accepted(a), (5 * Unit) \div 100))
              /\ \A i \in 1 .. Len(social_messages) :
                   Accepted(a) = {i} /\ social_messages[i].sender_id = a =>
                       agents[a].happiness =
                           Clamp(snap.agents[a].happiness
                                 + FMul(social_messages[i].interaction_strength,
                                        (5 * Unit) \div 100))
         /\ social_messages = <<>> =>
              /\ agents[a].happiness = snap.agents[a].happiness
              /\ agents[a].social_reputation = snap.agents[a].social_reputation
              /\ agents[a].num_connections = snap.agents[a].num_connections
         /\ Sum(SocialAcc(a).cultural_affinities) = 0 =>
              agents[a].cultural_affinity = snap.agents[a].cultural_affinity
    /\ \A a \in Done("CulturalAggregate") :
         (cultural_messages = <<>> \/ TotalReceived(a) = 0)
             => agents[a] = snap.agents[a]
    /\ \A a \in Done("CoreStateUpdate") :
         STEPS_PER_YEAR = 0 => agents[a].age = snap.agents[a].age
    /\ \A a \in Done("Movement") :
         (snap.agents[a].velocity_x = 0 /\ snap.agents[a].velocity_y = 0) =>
             /\ Abs(agents[a].x - snap.agents[a].x) <= Unit
             /\ Abs(agents[a].y - snap.agents[a].y) <= Unit

\* under radius 0 an agent has accepted its own signal alone and gained
\* happiness by it, and an agent whose affinities are all 0 has kept them
C17_Witness ==
    /\ InPhase("SocialAggregate")
    /\ interaction_radius = 0 /\ STEPS_PER_YEAR = 0
    /\ \E a \in done : \E i \in 1 .. Len(social_messages) :
         /\ Len(social_messages) > 1
         /\ Accepted(a) = {i} /\ social_messages[i].sender_id = a
         /\ agents[a].happiness > snap.agents[a].happiness
    /\ \E a \in done :
         /\ Sum(snap.agents[a].cultural_affinity) = 0
         /\ Sum(agents[a].cultural_affinity) = 0

\* C18: the core never creates, destroys or reorders agents: every agent
\* function, the trade and family stubs included, returns ALIVE for every
\* agent in every reachable state, and the agents and their ids are those the
\* population manager handed in, in every phase of every tick.
C18_PopulationFixed ==
    /\ DOMAIN agents = Agents
    /\ DOMAIN snap.agents = Agents
    /\ \A fn \in AgentFunctions : \A a \in DOMAIN agents :
         Return(fn, agents[a]) = ALIVE
    /\ \A i \in 1 .. Len(social_messages) : social_messages[i].sender_id \in Agents
    /\ \A i \in 1 .. Len(cultural_messages) :
         cultural_messages[i].influencer_id \in Agents

\* the last tick has ended, and an agent that has run out of food is still
\* there with the others
C18_Witness ==
    /\ tick = MaxTicks /\ InPhase("CoreStateUpdate") /\ done = Agents
    /\ DOMAIN agents = Agents
    /\ \E a \in Agents : agents[a].food_resources = 0 /\ snap.agents[a].food_resources = 0

InSocialPhase == InPhase("SocialBroadcast") \/ InPhase("SocialAggregate")

\* C19: the social phase (broadcast and aggregate) does not change any
\* agent's affinity vector or group_id.
C19_SocialPhaseKeepsAffinity ==
    InSocialPhase =>
        \A a \in Agents :
            /\ agents[a].cultural_affinity = snap.agents[a].cultural_affinity
            /\ agents[a].cultural_group = snap.agents[a].cultural_group

\* what the accepted messages of the groups other than its own add to the
\* affinities of agent a: effect * 0.01 each, to the sender's group
Drift(a) ==
    LET accepted == Accepted(a)
    IN [g \in Groups |->
          IF g = snap.agents[a].cultural_group THEN 0
          ELSE EffectSum(a, {i \in accepted : social_messages[i].cultural_group = g},
                         Unit \div 100)]

\* a vector divided by its sum when that is positive
Shares(v) ==
    LET total == Sum(v)
    IN IF total > 0 THEN [g \in Groups |-> FDiv(v[g], total)] ELSE v

\* C19 as amended: the social phase does not change any agent's group_id and
\* the social broadcast changes no agent; the social aggregate adds
\* effect * 0.01 to the affinity of the sender's group for every accepted
\* message of a group other than the receiver's and then divides the vector by
\* its sum when that is positive, so that the vector is unchanged for an agent
\* that accepts no message of another group and whose affinities sum to
\* exactly 1 or 0.
C19_SocialPhaseKeepsGroup ==
    /\ InSocialPhase =>
         \A a \in Agents : agents[a].cultural_group = snap.agents[a].cultural_group
    /\ InPhase("SocialBroadcast") => agents = snap.agents
    /\ \A a \in Done("SocialAggregate") :
         LET old == snap.agents[a].cultural_affinity
             drift == Drift(a)
             raw == [g \in Groups |-> old[g] + drift[g]]
         IN /\ agents[a].cultural_affinity = Shares(raw)
            /\ (raw = old /\ Sum(old) \in {0, Unit})
                   => agents[a].cultural_affinity = old

\* the social aggregate has raised an agent's affinity for the group of a
\* sender unlike it, and the agent has kept its group
C19_Witness ==
    \E a \in Done("SocialAggregate") :
        \E i \in Accepted(a) :
            LET g == social_messages[i].cultural_group
            IN /\ g # snap.agents[a].cultural_group
               /\ agents[a].cultural_affinity[g] > snap.agents[a].cultural_affinity[g]
               /\ agents[a].cultural_group = snap.agents[a].cultural_group

\* C20: the social aggregator examines at most MAX_INTERACTIONS_PER_STEP
\* messages of the tick's social message set for every receiver, and no
\* message after that point.
C20_ExaminedWithinCap ==
    \A a \in Done("SocialAggregate") :
        SocialAcc(a).examined <= MAX_INTERACTIONS_PER_STEP

\* the positions in the social message list of the messages within the radius
\* of agent a
Near(a) ==
    {i \in 1 .. Len(social_messages) :
        WithinRadius(snap.agents[a], social_messages[i])}

\* the position at which agent a stops: that of the message within its radius
\* that reaches the cap, or the end of the list
StopsAt(a) ==
    IF MAX_INTERACTIONS_PER_STEP = 0 THEN 0
    ELSE IF Cardinality(Near(a)) < MAX_INTERACTIONS_PER_STEP THEN Len(social_messages)
    ELSE CHOOSE i \in Near(a) :
             Cardinality({j \in Near(a) : j <= i}) = MAX_INTERACTIONS_PER_STEP

\* C20 as amended: the social aggregator stops once MAX_INTERACTIONS_PER_STEP
\* messages within the radius have been accepted: at most that many messages
\* are accepted, the messages examined are exactly those up to the one that
\* reaches the cap (all of them if the cap is not reached) and no message
\* after it is examined; a message farther than the radius before that point
\* is examined without counting, so more than MAX_INTERACTIONS_PER_STEP
\* messages can be examined.
C20_AcceptedWithinCap ==
    \A a \in Done("SocialAggregate") :
        LET acc == SocialAcc(a)
            near == Near(a)
            stop == StopsAt(a)
        IN /\ acc.interactions_processed <= MAX_INTERACTIONS_PER_STEP
           /\ acc.examined = stop
           /\ acc.interactions_processed = Cardinality({i \in near : i <= stop})
           /\ acc.examined - acc.interactions_processed
                  = Cardinality({i \in 1 .. stop : i \notin near})

\* under a cap of one, an agent has stopped at the first message and left a
\* message unexamined, and another has examined two messages, the first of
\* them out of its range
C20_Witness ==
    /\ \E a \in Done("SocialAggregate") :
         /\ SocialAcc(a).interactions_processed = MAX_INTERACTIONS_PER_STEP
         /\ SocialAcc(a).examined < Len(social_messages)
    /\ \E a \in Done("SocialAggregate") :
         /\ SocialAcc(a).examined > MAX_INTERACTIONS_PER_STEP
         /\ 1 \notin Near(a)

\* the positions of the social message list that hold a message of sender a
SocialSent(a) == {i \in DOMAIN social_messages : social_messages[i].sender_id = a}

\* C21: in the Social Broadcast an agent emits at most one social message, and
\* one exactly when its energy is strictly above 0.2 at broadcast time; the
\* message carries min(1.0, reputation * energy), a value of [0, 1], and the
\* agent's position and group at broadcast time; no agent field changes.
C21_SocialSignal ==
    InPhase("SocialBroadcast") =>
        /\ agents = snap.agents
        /\ \A a \in Agents :
             LET ag == agents[a]
                 sent == SocialSent(a)
             IN /\ Cardinality(sent) <= 1
                /\ sent # {} <=> (a \in done /\ 5 * ag.energy > Unit)
                /\ \A i \in sent :
                     LET msg == social_messages[i]
                         product == FMul(ag.social_reputation, ag.energy)
                     IN /\ msg.interaction_strength =
                             IF product > Unit THEN Unit ELSE product
                        /\ msg.interaction_strength \in 0 .. Unit
                        /\ msg.sender_x = ag.x /\ msg.sender_y = ag.y
                        /\ msg.cultural_group = ag.cultural_group

\* the broadcast is over: an agent of energy exactly 0.2 stayed silent, and
\* an agent above it sent its message
C21_Witness ==
    /\ InPhase("SocialBroadcast") /\ done = Agents
    /\ \E a, b \in Agents :
         /\ 5 * agents[a].energy = Unit /\ SocialSent(a) = {}
         /\ agents[b].energy > agents[a].energy /\ SocialSent(b) # {}
         /\ social_messages[CHOOSE i \in SocialSent(b) : TRUE].interaction_strength > 0

\* the positions of the cultural message list that hold a message of influencer a
CulturalSent(a) ==
    {i \in DOMAIN cultural_messages : cultural_messages[i].influencer_id = a}

\* reputation * happiness * INFLUENCE_STRENGTH_FACTOR of agent a
InfluenceStrength(a) ==
    FMul(FMul(agents[a].social_reputation, agents[a].happiness),
         INFLUENCE_STRENGTH_FACTOR)

\* C22: in the Cultural Broadcast an agent emits at most one cultural message,
\* and one exactly when reputation * happiness * INFLUENCE_STRENGTH_FACTOR is
\* strictly above 0.1; the message carries that strength unchanged, above 1
\* when the product is, whatever the agent's energy; no agent field changes.
C22_CulturalSignal ==
    InPhase("CulturalBroadcast") =>
        /\ agents = snap.agents
        /\ \A a \in Agents :
             LET sent == CulturalSent(a)
             IN /\ Cardinality(sent) <= 1
                /\ sent # {} <=> (a \in done /\ 10 * InfluenceStrength(a) > Unit)
                /\ \A i \in sent :
                     /\ cultural_messages[i].influence_strength = InfluenceStrength(a)
                     /\ cultural_messages[i].influencer_x = agents[a].x
                     /\ cultural_messages[i].influencer_y = agents[a].y
                     /\ cultural_messages[i].cultural_group = agents[a].cultural_group

\* the broadcast is over: an agent of strength exactly 0.1 stayed silent, and
\* another sent a strength above 1
C22_Witness ==
    /\ InPhase("CulturalBroadcast") /\ done = Agents
    /\ \E a, b \in Agents :
         /\ 10 * InfluenceStrength(a) = Unit /\ CulturalSent(a) = {}
         /\ \E i \in CulturalSent(b) : cultural_messages[i].influence_strength > Unit

\* v lowered by d, floored at 0
Lowered(v, d) == IF v > d THEN v - d ELSE 0

\* C23: the Core-State Update sets energy to max(0, energy - 0.005); an agent
\* with food strictly above 0.01 loses 0.01 of it, any other agent (food
\* exactly 0.01 included) has its food set to 0 and its energy lowered by a
\* further 0.01, floored at 0; age grows by 1 / STEPS_PER_YEAR when that is
\* positive and is kept otherwise; no other field changes; in every state
\* food is at least 0 and no age is below its value as the tick started.
C23_CoreStateUpdate ==
    /\ \A a \in Done("CoreStateUpdate") :
         LET old == snap.agents[a]
             new == agents[a]
             base == Lowered(old.energy, Unit \div 200)
         IN /\ old.food_resources > Unit \div 100 =>
                 /\ new.food_resources = old.food_resources - Unit \div 100
                 /\ new.energy = base
            /\ old.food_resources <= Unit \div 100 =>
                 /\ new.food_resources = 0
                 /\ new.energy = Lowered(base, Unit \div 100)
            /\ STEPS_PER_YEAR > 0 =>
                 (new.age - old.age) * STEPS_PER_YEAR = Unit * Unit
            /\ STEPS_PER_YEAR <= 0 => new.age = old.age
            /\ [new EXCEPT !.energy = 0, !.food_resources = 0, !.age = 0]
                 = [old EXCEPT !.energy = 0, !.food_resources = 0, !.age = 0]
    /\ \A a \in Agents :
         /\ agents[a].food_resources >= 0
         /\ agents[a].age >= snap.start[a].age

\* an agent whose food was exactly 0.01 has none left and its energy, 0.01, is
\* floored at 0, while a fed agent has paid 0.005 and has aged
C23_Witness ==
    /\ InPhase("CoreStateUpdate")
    /\ STEPS_PER_YEAR > 0
    /\ \E a, b \in done :
         /\ 100 * snap.agents[a].food_resources = Unit
         /\ 100 * snap.agents[a].energy = Unit
         /\ agents[a].food_resources = 0 /\ agents[a].energy = 0
         /\ 100 * snap.agents[b].food_resources > Unit
         /\ agents[b].food_resources < snap.agents[b].food_resources
         /\ agents[b].energy = snap.agents[b].energy - Unit \div 200
         /\ agents[b].age > snap.start[b].age

\* the agents that have moved in the Movement phase under way
Movers == {a \in Done("Movement") : 10 * snap.agents[a].energy > Unit}

\* the velocity of mover a after its random perturbation, before the limit
Perturbed(a) ==
    <<snap.agents[a].velocity_x + uniformFloat(-Unit, Unit, snap.rng[a], 1),
      snap.agents[a].velocity_y + uniformFloat(-Unit, Unit, snap.rng[a], 2)>>

\* the square of the length of the vector v
NormSq(v) == v[1] * v[1] + v[2] * v[2]

\* the velocity agent a has stored
Stored(a) == <<agents[a].velocity_x, agents[a].velocity_y>>

\* mover a has been put back on a border of the x axis, of the y axis
HitX(a) == agents[a].x = 0 \/ agents[a].x = world_width
HitY(a) == agents[a].y = 0 \/ agents[a].y = world_height

\* C24 as stated: the stored velocity of every moving agent has a speed of at
\* most max_speed.
C24_SpeedAtMostMax ==
    \A a \in Movers : NormSq(Stored(a)) <= max_speed * max_speed

\* C24: the stored velocity of every moving agent has a speed of at most
\* max_speed up to the rounding of the rescaling; a perturbed velocity faster
\* than max_speed is rescaled to max_speed up to that rounding and one that is
\* not faster is kept; the border reflection negates the reflected component
\* and nothing else, so the speed is the same before and after it.
C24_SpeedWithinRounding ==
    \A a \in Movers :
        LET v0 == Perturbed(a)
            v == Stored(a)
        IN /\ Sqrt(NormSq(v)) <= max_speed + Epsilon
           /\ Sqrt(NormSq(v0)) > max_speed =>
                /\ Abs(Sqrt(NormSq(v)) - max_speed) <= Epsilon
                /\ Abs(Abs(v[1]) * Abs(v0[2]) - Abs(v[2]) * Abs(v0[1]))
                       <= Epsilon * (Abs(v0[1]) + Abs(v0[2]))
           /\ Sqrt(NormSq(v0)) <= max_speed =>
                /\ Abs(v[1]) = Abs(v0[1]) /\ Abs(v[2]) = Abs(v0[2])
           /\ IF HitX(a) THEN v[1] * v0[1] <= 0 ELSE v[1] * v0[1] >= 0
           /\ IF HitY(a) THEN v[2] * v0[2] <= 0 ELSE v[2] * v0[2] >= 0

\* a perturbed velocity faster than max_speed has been rescaled and reflected
\* on both axes, and another mover has kept its slower perturbed velocity
C24_Witness ==
    /\ \E a \in Movers :
         /\ NormSq(Perturbed(a)) > max_speed * max_speed + Unit * Unit
         /\ HitX(a) /\ HitY(a)
         /\ Stored(a)[1] < 0 /\ Stored(a)[2] < 0
    /\ \E a \in Movers :
         /\ Stored(a) = Perturbed(a) /\ NormSq(Stored(a)) > 0

\* the agents as the phase named p of the current tick completed
Committed(p) == snap.committed[CHOOSE i \in DOMAIN PhaseOrder : PhaseOrder[i] = p]

\* C25: a phase reads what the previous phases of the same tick have
\* committed: a message of tick T carries its sender's position as the
\* Movement of tick T left it, a social message the strength of the energy
\* Movement left, and a cultural message the influence strength of the
\* reputation and happiness the Social Aggregate of tick T has written.
C25_ReadsCommittedOutputs ==
    /\ \A i \in DOMAIN social_messages :
         LET msg == social_messages[i]
             moved == Committed("Movement")[msg.sender_id]
         IN /\ msg.tick = tick
            /\ msg.sender_x = moved.x /\ msg.sender_y = moved.y
            /\ msg.interaction_strength =
                   Min(Unit, FMul(moved.social_reputation, moved.energy))
    /\ \A i \in DOMAIN cultural_messages :
         LET msg == cultural_messages[i]
             moved == Committed("Movement")[msg.influencer_id]
             heard == Committed("SocialAggregate")[msg.influencer_id]
         IN /\ msg.tick = tick
            /\ msg.influencer_x = moved.x /\ msg.influencer_y = moved.y
            /\ msg.influence_strength =
                   FMul(FMul(heard.social_reputation, heard.happiness),
                        INFLUENCE_STRENGTH_FACTOR)

\* a cultural message of the second tick carries a position and a strength
\* that differ from those of its sender as the tick started
C25_Witness ==
    /\ tick = 2 /\ InPhase("CulturalAggregate")
    /\ \E i \in DOMAIN cultural_messages :
         LET msg == cultural_messages[i]
             was == snap.start[msg.influencer_id]
         IN /\ msg.influencer_x # was.x /\ msg.influencer_y # was.y
            /\ msg.influence_strength #
                   FMul(FMul(was.social_reputation, was.happiness),
                        INFLUENCE_STRENGTH_FACTOR)
            /\ msg.influence_strength > Unit \div 10
            /\ 10 * FMul(FMul(was.social_reputation, was.happiness),
                         INFLUENCE_STRENGTH_FACTOR) > Unit

\* the positions of the cultural messages within the influence radius of agent a
CulturalNear(a) == UNION {Influences(a, g) : g \in Groups}

\* C26 as stated: an agent whose own social signal, of positive strength, is
\* the only one within its radius gains strength * 0.05 of happiness and
\* strength * 0.02 of reputation, and an agent whose own cultural signal is the
\* only one within its radius has a higher affinity for its own group.
C26_OwnSignalGains ==
    /\ \A a \in Done("SocialAggregate") : \A i \in SocialSent(a) :
         (Near(a) = {i} /\ social_messages[i].interaction_strength > 0) =>
             /\ agents[a].happiness = snap.agents[a].happiness
                    + FMul(social_messages[i].interaction_strength, (5 * Unit) \div 100)
             /\ agents[a].social_reputation = snap.agents[a].social_reputation
                    + FMul(social_messages[i].interaction_strength, (2 * Unit) \div 100)
    /\ \A a \in Done("CulturalAggregate") : \A i \in CulturalSent(a) :
         CulturalNear(a) = {i} =>
             agents[a].cultural_affinity[snap.agents[a].cultural_group]
                 > snap.agents[a].cultural_affinity[snap.agents[a].cultural_group]

\* C26: the aggregators do not leave out the receiver's own message: it lies
\* at distance 0 and has the receiver's group, so that its effect is its
\* strength; under a cap of at least 1 an agent whose own social signal is the
\* only one within its radius has its happiness raised by strength * 0.05 and
\* its reputation by strength * 0.02, both capped at 1; an agent whose own
\* cultural signal is the only one within its radius receives its full
\* strength for its own group, whose affinity is not lowered, and is raised
\* when it was below 1 and the vector summed to 1 or to 0.
C26_OwnSignalCounts ==
    /\ \A a \in Done("SocialAggregate") : \A i \in SocialSent(a) :
         LET old == snap.agents[a]
             msg == social_messages[i]
         IN /\ SenderDistance(old, msg) = 0
            /\ Effect(old, msg) = msg.interaction_strength
            /\ (Near(a) = {i} /\ MAX_INTERACTIONS_PER_STEP >= 1) =>
                 /\ Accepted(a) = {i}
                 /\ agents[a].happiness =
                        Min(Unit, old.happiness
                                  + FMul(msg.interaction_strength, (5 * Unit) \div 100))
                 /\ agents[a].social_reputation =
                        Min(Unit, old.social_reputation
                                  + FMul(msg.interaction_strength, (2 * Unit) \div 100))
    /\ \A a \in Done("CulturalAggregate") : \A i \in CulturalSent(a) :
         LET old == snap.agents[a]
             g == old.cultural_group
         IN /\ i \in Influences(a, g)
            /\ CulturalNear(a) = {i} =>
                 /\ Received(a)[g] = cultural_messages[i].influence_strength
                 /\ TotalReceived(a) = Received(a)[g]
                 /\ agents[a].cultural_affinity[g] >= old.cultural_affinity[g]
                 /\ (old.cultural_affinity[g] < Unit
                     /\ (\/ Abs(Sum(old.cultural_affinity) - Unit) <= Epsilon
                         \/ Sum(old.cultural_affinity) = 0))
                        => agents[a].cultural_affinity[g] > old.cultural_affinity[g]

\* agent a emitted a social signal in this tick and no other agent was within
\* its interaction radius
AloneWithSignal(a) ==
    LET moved == Committed("Movement")
    IN /\ 5 * moved[a].energy > Unit
       /\ moved[a].social_reputation > 0
       /\ \A b \in Agents \ {a} :
            DistanceSq(moved[a].x, moved[a].y, moved[b].x, moved[b].y)
                > interaction_radius * interaction_radius

\* an agent alone within both radii, with another signal in the list, has
\* heard its own cultural signal and its affinity for its own group has risen,
\* after its own social signal had raised its happiness in the Social
\* Aggregate of the same tick, and the reputation of an agent as lonely
C26_Witness ==
    /\ InPhase("CulturalAggregate")
    /\ \E a \in done : \E i \in CulturalSent(a) :
         LET g == snap.agents[a].cultural_group
         IN /\ Len(cultural_messages) > 1
            /\ CulturalNear(a) = {i}
            /\ agents[a].cultural_affinity[g] > snap.agents[a].cultural_affinity[g]
            /\ AloneWithSignal(a)
            /\ Committed("SocialAggregate")[a].happiness
                   > Committed("Movement")[a].happiness
    /\ \E b \in Agents :
         /\ AloneWithSignal(b)
         /\ Committed("SocialAggregate")[b].social_reputation
                > Committed("Movement")[b].social_reputation

\* the ticks that lower an energy of 1 to 0 by steps of 0.005
TicksToZero == Unit \div (Unit \div 200)

\* every agent has spent its energy, stays where it is and is silent
AllSpent ==
    /\ \A a \in Agents : agents[a].energy = 0 /\ SocialSent(a) = {}
    /\ InPhase("Movement") => agents = snap.agents

\* C27: no step increases the energy of an agent, and the Core-State Update
\* lowers a positive energy by 0.005 or to 0; from an energy of at most 1
\* every agent's energy is 0 once 200 ticks have run, and from some tick on
\* every agent's energy is 0 for good: no agent moves or emits a social message
\* any more.
C27_EnergyRunsOut ==
    /\ [][\A a \in Agents : agents'[a].energy <= agents[a].energy]_vars
    /\ [](\A a \in Done("CoreStateUpdate") :
              agents[a].energy <= Lowered(snap.agents[a].energy, Unit \div 200))
    /\ [](tick > TicksToZero => \A a \in Agents : agents[a].energy = 0)
    /\ <>[]AllSpent

\* an agent that started with energy 1 holds its last 0.005 as a Core-State
\* Update starts, next to an agent whose energy is already 0
C27_Witness ==
    /\ InPhase("CoreStateUpdate") /\ done = {}
    /\ \E a, b \in Agents :
         /\ agents[a].energy > 0 /\ agents[a].energy <= Unit \div 200
         /\ agents[b].energy = 0

\* the accepted messages of agent a whose interaction effect is positive
Effective(a) ==
    {i \in Accepted(a) : Effect(snap.agents[a], social_messages[i]) > 0}

\* the number of accepted messages of agent a up to position i of the list
Rank(a, i) == Cardinality({j \in Accepted(a) : j <= i})

\* C28: happiness, reputation and connection count of an agent never fall: in
\* every state they are at least what they were as the phase and as the tick
\* started; in a Social Aggregate the connection count grows by no more than
\* the number of accepted messages, itself at most MAX_INTERACTIONS_PER_STEP,
\* and a message whose interaction effect is 0, such as one of a sender
\* exactly at the radius, adds no connection.
C28_SocialValuesGrow ==
    /\ \A a \in Agents : \A was \in {snap.agents[a], snap.start[a]} :
         /\ agents[a].happiness >= was.happiness
         /\ agents[a].social_reputation >= was.social_reputation
         /\ agents[a].num_connections >= was.num_connections
    /\ \A a \in Done("SocialAggregate") :
         LET growth == agents[a].num_connections - snap.agents[a].num_connections
         IN /\ growth <= Cardinality(Effective(a))
            /\ Cardinality(Effective(a)) <= Cardinality(Accepted(a))
            /\ Cardinality(Accepted(a)) <= MAX_INTERACTIONS_PER_STEP

\* a receiver has accepted the signal of a sender exactly at its radius: the
\* effect is 0 and the draw is 0, the lowest there is, and no connection is made
C28_Witness ==
    /\ InPhase("SocialAggregate")
    /\ \E a \in done : \E i \in Accepted(a) :
         LET old == snap.agents[a]
             msg == social_messages[i]
         IN /\ msg.interaction_strength > 0
            /\ SenderDistance(old, msg) = interaction_radius
            /\ Effect(old, msg) = 0
            /\ uniformFloat(0, Unit, snap.rng[a], Rank(a, i)) = 0
            /\ agents[a].num_connections = old.num_connections

\* the orders in which a list of n messages can be iterated
Orders(n) == {p \in [1 .. n -> 1 .. n] : \A i, j \in 1 .. n : i # j => p[i] # p[j]}

\* the list in the order p
Reordered(list, p) == [i \in 1 .. Len(list) |-> list[p[i]]]

FarBefore(a, i) == {j \in 1 .. i - 1 : j \notin Near(a)}

\* C30: the cap counts accepted messages only: the counter of a receiver is
\* the number of messages within its radius, or MAX_INTERACTIONS_PER_STEP if
\* they are more; the messages that contribute to its happiness and
\* reputation are the first MAX_INTERACTIONS_PER_STEP within its radius in the
\* order of the list, however many messages outside the radius come before
\* them; they are never more than MAX_INTERACTIONS_PER_STEP, and none when
\* that is 0.
C30_CapCountsAccepted ==
    \A a \in Done("SocialAggregate") :
        LET acc == SocialAcc(a)
            contributing == Accepted(a)
        IN /\ acc.interactions_processed =
                  Min(MAX_INTERACTIONS_PER_STEP, Cardinality(Near(a)))
           /\ Cardinality(contributing) = acc.interactions_processed
           /\ \A i \in Near(a) :
                  Cardinality({j \in Near(a) : j < i}) < MAX_INTERACTIONS_PER_STEP
                     => /\ i \in contributing
                        /\ acc.examined >= i
                        /\ acc.examined >= Cardinality(FarBefore(a, i)) + 1
           /\ acc.happiness_change = EffectSum(a, contributing, (5 * Unit) \div 100)
           /\ acc.reputation_change = EffectSum(a, contributing, (2 * Unit) \div 100)
           /\ MAX_INTERACTIONS_PER_STEP = 0 =>
                  /\ acc.happiness_change = 0 /\ acc.reputation_change = 0
                  /\ agents[a].happiness = snap.agents[a].happiness
                  /\ agents[a].social_reputation = snap.agents[a].social_reputation
                  /\ agents[a].num_connections = snap.agents[a].num_connections

\* under a cap of 1 a receiver has passed over a message outside its radius
\* and the message after it, the first within its radius, has contributed
C30_Witness ==
    /\ MAX_INTERACTIONS_PER_STEP = 1
    /\ \E a \in Done("SocialAggregate") :
         /\ FarBefore(a, 2) = {1}
         /\ 2 \in Accepted(a)
         /\ SocialAcc(a).happiness_change > 0
         /\ agents[a].social_reputation > snap.agents[a].social_reputation

====
